---------------------------- MODULE Spec2Model ----------------------------
(***************************************************************************)
(* Model of the work-matching heuristic and the identifier-suffix logic of *)
(* the snowballing tool.                                                   *)
(*                                                                         *)
(* Strings are sequences of character codes (Python's ord): the code reads *)
(* them character by character (startswith, [-1], isalpha, rstrip, the     *)
(* difflib matching blocks), so they are not opaque here.                  *)
(*   'a'..'z' = 97..122, 'A'..'Z' = 65..90, '0'..'9' = 48..57,             *)
(*   ' ' = 32, '{' = 123, '}' = 125.                                       *)
(* An attribute or dict key that is absent is the value NoAttr.            *)
(***************************************************************************)
EXTENDS Integers, Sequences, FiniteSets, TLC

VARIABLES
    varname,      \* increment_str: its argument
    new_s,        \* increment_str: the string it returns
    pcIncr,       \* increment_str: "input" before the call, "done" after it
    info,         \* matching: the record (info / paper dict) compared
    work,         \* matching: the candidate Work
    matched,      \* matching: what info_work_match returned
    compared,     \* matching: what compare_paper_to_work returned
    pcMatch,      \* matching: "input", "info_work_match", "compare_paper_to_work"
    WORK_CACHE,   \* operations.WORK_CACHE: year file -> its <<varname, Work>> items
    given,        \* find_work_by_info: its arguments (paper, pyrefs) as passed
    paperOut,     \* find_work_by_info: the paper dict, as the call left it
    found,        \* find_work_by_info: the Work returned (0 is None)
    raised,       \* find_work_by_info: the exception raised, "no" if none
    op,           \* the last operation on the database
    conv,         \* ConvertDict.run / ConvertWork.run: the frame of one call
    disk,         \* the work files: the Works they define, with or without alias
    modules,      \* the year modules WORK_CACHE holds: year -> <<varname, object>>
    registry,     \* models.DB: the Work objects registered
    reloaded,     \* "no" before reload() and after an edit, else how it ended
    pyrefCache,   \* set_pyref: the modules WORK_CACHE holds, year -> <<varname, Work>>
    newPyref,     \* set_pyref / info_to_pyref: the identifier given
    pcPyref,      \* "ready" to give an identifier, else the function that gave one
    frompdf,      \* Converter.frompdf_widget.value: the text given
    output,       \* Converter.output_widget.value: the list its JSON holds
    label,        \* Converter.label_widget.value: the number of entries converted
    article_list, \* the variable set_variable creates
    lineInfo,     \* what convert_citation_text_lines_to_info returned
    pcCite,       \* "input", then the last step of the Converter and how it ended
    database,     \* dbmanager: the year files and citation files on disk
    call,         \* dbmanager: the last call, its dry_run, how it ended
    strategy,     \* Strategy: its citations, filter and initial set, and the order run
    repeating,    \* Strategy._repeat: state, count, first, the function that is next
    prov,         \* create_provenance: citations, filter and order, and frontier, visited, related, log, count
    scholar,      \* ScholarUpdate: worklist, force, index, query, varname, articles, the buttons
    states,       \* Strategy: the State objects made since __init__, states[i] is named s(i-1)
    running       \* Strategy: its citations, filter and initial set, and the call that runs

incrVars == <<varname, new_s, pcIncr>>

matchVars == <<info, work, matched, compared, pcMatch>>

findVars == <<WORK_CACHE, given, paperOut, found, raised, op>>

\* the variables of the components the first three specifications leave idle
reloadVars == <<disk, modules, registry, reloaded>>

pyrefVars == <<pyrefCache, newPyref, pcPyref>>

citeVars == <<frompdf, output, label, article_list, lineInfo, pcCite>>

dryVars == <<database, call>>

strategyVars == <<strategy, repeating>>

provVars == <<prov>>

scholarVars == <<scholar>>

sessionVars == <<states, running>>

restVars == <<conv, reloadVars, pyrefVars, citeVars, dryVars, strategyVars, provVars, scholarVars, sessionVars>>

vars == <<incrVars, matchVars, findVars, restVars>>

-----------------------------------------------------------------------------
(* Characters and strings *)

ascii_lowercase == 97..122

ascii_letters == (97..122) \cup (65..90)

digits == 48..57

\* str.isalpha() of one character, for the ASCII characters of the model
isalpha(c) == c \in ascii_letters

\* str.startswith
startswith(s, prefix) ==
    /\ Len(prefix) <= Len(s)
    /\ SubSeq(s, 1, Len(prefix)) = prefix

\* s[:-1]
DropLast(s) == IF s = <<>> THEN <<>> ELSE SubSeq(s, 1, Len(s) - 1)

\* 'a' * n
RECURSIVE Repeat(_, _)
Repeat(c, n) == IF n = 0 THEN <<>> ELSE <<c>> \o Repeat(c, n - 1)

Max2(x, y) == IF x >= y THEN x ELSE y

-----------------------------------------------------------------------------
(* dbindex.increment_char / increment_str *)

increment_char(letter) ==
    IF letter \notin ascii_letters THEN 97
    ELSE IF letter # 122 THEN letter + 1 ELSE 97

\* varname.rstrip('z')
RECURSIVE rstrip_z(_)
rstrip_z(s) ==
    IF s # <<>> /\ s[Len(s)] = 122 THEN rstrip_z(DropLast(s)) ELSE s

\* increment_str without the 'a' * num_replacements of its last line
increment_str_carry(v) ==
    LET lpart == rstrip_z(v)
        num_replacements == Len(v) - Len(lpart)
        incremented ==
            IF lpart # <<>> /\ lpart[Len(lpart)] \in ascii_letters
            THEN DropLast(lpart) \o <<increment_char(lpart[Len(lpart)])>>
            ELSE lpart \o <<97>>
    IN  incremented

increment_str(v) ==
    LET lpart == rstrip_z(v)
        num_replacements == Len(v) - Len(lpart)
        incremented ==
            IF lpart # <<>> /\ lpart[Len(lpart)] \in ascii_letters
            THEN DropLast(lpart) \o <<increment_char(lpart[Len(lpart)])>>
            ELSE lpart \o <<97>>
    IN  incremented \o Repeat(97, num_replacements)

-----------------------------------------------------------------------------
(* utils.compare_str: difflib.SequenceMatcher(None, first, second).ratio() *)
(* The ratio is 2 * M / T, M the total size of the matching blocks and T   *)
(* the two lengths together; it is kept as the fraction [num, den].        *)
(* (autojunk only acts on a second string of 200 characters or more.)      *)

\* length of the common run of a from i and of b from j, up to ahi and bhi
RECURSIVE CommonRun(_, _, _, _, _, _)
CommonRun(a, b, i, j, ahi, bhi) ==
    IF i <= ahi /\ j <= bhi /\ a[i] = b[j]
    THEN 1 + CommonRun(a, b, i + 1, j + 1, ahi, bhi)
    ELSE 0

SetMax(S) == CHOOSE x \in S : \A y \in S : y <= x

SetMin(S) == CHOOSE x \in S : \A y \in S : x <= y

\* SequenceMatcher.find_longest_match on a[alo..ahi], b[blo..bhi]: the
\* longest block, the one starting earliest in a, then earliest in b
find_longest_match(a, b, alo, ahi, blo, bhi) ==
    LET run == [i \in alo..ahi, j \in blo..bhi |-> CommonRun(a, b, i, j, ahi, bhi)]
        bestsize == SetMax({run[i, j] : i \in alo..ahi, j \in blo..bhi})
        besti == SetMin({i \in alo..ahi : \E j \in blo..bhi : run[i, j] = bestsize})
        bestj == SetMin({j \in blo..bhi : run[besti, j] = bestsize})
    IN  <<besti, bestj, bestsize>>

\* SequenceMatcher.get_matching_blocks: the sizes of all blocks, summed
RECURSIVE matching_size(_, _, _, _, _, _)
matching_size(a, b, alo, ahi, blo, bhi) ==
    IF alo > ahi \/ blo > bhi THEN 0
    ELSE LET m == find_longest_match(a, b, alo, ahi, blo, bhi)
         IN  IF m[3] = 0 THEN 0
             ELSE m[3]
                  + matching_size(a, b, alo, m[1] - 1, blo, m[2] - 1)
                  + matching_size(a, b, m[1] + m[3], ahi, m[2] + m[3], bhi)

compare_str(first, second) ==
    IF Len(first) + Len(second) = 0 THEN [num |-> 1, den |-> 1]
    ELSE [num |-> 2 * matching_size(first, second, 1, Len(first), 1, Len(second)),
          den |-> Len(first) + Len(second)]

\* ratio > required, required in tenths (0.8, 0.9 and 1.0 are 8, 9 and 10)
RatioAbove(ratio, tenths) == 10 * ratio.num > tenths * ratio.den

RatioIs(ratio, tenths) == 10 * ratio.num = tenths * ratio.den

-----------------------------------------------------------------------------
(* Records, Works and places *)

NoAttr == "<absent>"

None == [none |-> TRUE]

\* the places module: variable name -> Place.name
PlaceName ==
    [Book |-> <<66, 111, 111, 107>>, IPAW |-> <<105, 112, 97, 119>>,
     TaPP |-> <<116, 97, 112, 112>>,
     TechReport |-> <<84, 101, 99, 104, 32, 82, 101, 112, 111, 114, 116>>,
     Thesis |-> <<84, 104, 101, 115, 105, 115>>]

PlaceVars == DOMAIN PlaceName

\* getattr(config.MODULES['places'], varname, None) is not None
IsPlaceVar(v) == v \in PlaceVars

\* the aliases a Work declares, through `alias` (one tuple) or `aliases`
AliasList(w) ==
    IF w.alias_attr = "alias" THEN <<w.alias>>
    ELSE IF w.alias_attr = "aliases" THEN w.aliases
    ELSE <<>>

\* alias_condition without the fall-back to the Work's own authors
alias_condition_alias_authors(alias, w, i) ==
    /\ alias[1] = i.year
    /\ alias[2] = i.name
    /\ Len(alias) > 2
    /\ alias[3] = i.authors

alias_condition(alias, w, i) ==
    /\ alias[1] = i.year
    /\ alias[2] = i.name
    /\ \/ (Len(alias) > 2 /\ alias[3] = i.authors)
       \/ w.authors = i.authors

-----------------------------------------------------------------------------
(* config.info_work_match *)

iwm_same_place(i, w) ==
    /\ i.place # NoAttr
    /\ w.place # NoAttr
    /\ IsPlaceVar(i.place)
    /\ PlaceName[i.place] = PlaceName[w.place]

\* required without the 0.1 added for an unknown year
iwm_required_noyear(i, w) ==
    9 - (IF iwm_same_place(i, w) THEN 1 ELSE 0)

\* required, in tenths
iwm_required(i, w) ==
    9 + (IF i.year = 0 THEN 1 ELSE 0) - (IF iwm_same_place(i, w) THEN 1 ELSE 0)

info_work_match(i, w) ==
    \/ (IF i.cluster_id = NoAttr THEN "<ii>" ELSE i.cluster_id)
         = (IF w.cluster_id = NoAttr THEN "<iw>" ELSE w.cluster_id)
    \/ (IF i.scholar_id = NoAttr THEN "<ii>" ELSE i.scholar_id)
         = (IF w.scholar_id = NoAttr THEN "<iw>" ELSE w.scholar_id)
    \/ \E k \in 1..Len(AliasList(w)) : alias_condition(AliasList(w)[k], w, i)
    \/ RatioAbove(compare_str(w.name, i.name), iwm_required(i, w))

-----------------------------------------------------------------------------
(* operations.compare_paper_to_work *)

\* line 665-667: the letter after the last letter of a key sharing the prefix
next_letter(letter, key, paper) ==
    IF startswith(key, DropLast(paper.pyref))
    THEN Max2((IF isalpha(key[Len(key)]) THEN key[Len(key)] ELSE 97) + 1, letter)
    ELSE letter

cpw_exact(w, paper) ==
    \/ (w.cluster_id # NoAttr /\ paper.cluster_id # NoAttr
          /\ w.cluster_id = paper.cluster_id)
    \/ \E k \in 1..Len(AliasList(w)) : alias_condition(AliasList(w)[k], w, paper)

\* line 684-686: the record names a known place (work.place is then read)
cpw_reads_place(paper) == paper.place # NoAttr /\ IsPlaceVar(paper.place)

cpw_same_place(w, paper) ==
    /\ cpw_reads_place(paper)
    /\ w.place # NoAttr
    /\ PlaceName[paper.place] = PlaceName[w.place]

\* required without the 0.1 added for an unknown year
cpw_required_noyear(w, paper) ==
    9 - (IF cpw_same_place(w, paper) THEN 1 ELSE 0)

\* required, in tenths
cpw_required(w, paper) ==
    9 + (IF paper.year = 0 THEN 1 ELSE 0)
      - (IF cpw_same_place(w, paper) THEN 1 ELSE 0)

cpw_title(w, paper) ==
    RatioAbove(compare_str(w.name, paper.name), cpw_required(w, paper))

\* returns the Work or None, the letter, the paper (pyref set on a match)
\* and the exception raised, if any
compare_paper_to_work(letter, key, w, paper) ==
    IF w = None
    THEN [work |-> None, letter |-> letter, paper |-> paper, raised |-> "no"]
    ELSE LET l2 == next_letter(letter, key, paper)
             hit == [work |-> w, letter |-> l2,
                     paper |-> [paper EXCEPT !.pyref = key], raised |-> "no"]
             miss == [work |-> None, letter |-> l2, paper |-> paper,
                      raised |-> "no"]
         IN  IF cpw_exact(w, paper) THEN hit
             ELSE IF cpw_reads_place(paper) /\ w.place = NoAttr
             THEN [miss EXCEPT !.raised = "AttributeError"]
             ELSE IF cpw_title(w, paper) THEN hit
             ELSE miss

-----------------------------------------------------------------------------
(* Parts of an identifier *)

\* number of characters of s before its trailing run of lowercase letters
RECURSIVE StemLen(_)
StemLen(s) ==
    IF s # <<>> /\ s[Len(s)] \in ascii_lowercase THEN StemLen(DropLast(s))
    ELSE Len(s)

Stem(s) == SubSeq(s, 1, StemLen(s))

SuffixOf(s) == SubSeq(s, StemLen(s) + 1, Len(s))

-----------------------------------------------------------------------------
(* Inputs of increment_str: an identifier lastname+year+suffix, or the bare *)
(* suffix (what insert_work passes), the suffix made of lowercase letters.  *)

MaxSuffix == 2

x2014 == <<120, 50, 48, 49, 52>>

Suffixes(n) == UNION {[1..k -> ascii_lowercase] : k \in 0..n}

IncrInputs == {p \o s : p \in {<<>>, x2014}, s \in Suffixes(MaxSuffix)}

\* no conversion is running
IdleConv == conv = [pc |-> "idle"]

\* no files, nothing imported
IdleReload ==
    /\ disk = {}
    /\ modules = <<>>
    /\ registry = {}
    /\ reloaded = "idle"

IdlePyref ==
    /\ pyrefCache = <<>>
    /\ newPyref = <<>>
    /\ pcPyref = "idle"

IdleCite ==
    /\ frompdf = <<>>
    /\ output = <<>>
    /\ label = 0
    /\ article_list = <<>>
    /\ lineInfo = None
    /\ pcCite = "idle"

IdleDry ==
    /\ database = [work |-> <<>>, cit |-> <<>>]
    /\ call = [op |-> "idle"]

IdleStrategy ==
    /\ strategy = [order |-> <<>>]
    /\ repeating = [pc |-> "idle"]

IdleProv == prov = [pc |-> "idle"]

IdleScholar == scholar = [clicked |-> "idle"]

IdleSession ==
    /\ states = <<>>
    /\ running = [pc |-> "idle"]

IdleRest == IdleConv /\ IdleReload /\ IdlePyref /\ IdleCite /\ IdleDry /\ IdleStrategy /\ IdleProv /\ IdleScholar /\ IdleSession

\* no database is loaded
IdleFind ==
    /\ WORK_CACHE = <<>>
    /\ given = None
    /\ paperOut = None
    /\ found = 0
    /\ raised = "no"
    /\ op = "idle"

\* the matching functions are not in use
IdleMatch ==
    /\ info = None
    /\ work = None
    /\ matched = FALSE
    /\ compared = None
    /\ pcMatch = "idle"

InitIncr ==
    /\ varname \in IncrInputs
    /\ new_s = <<>>
    /\ pcIncr = "input"
    /\ IdleMatch
    /\ IdleFind
    /\ IdleRest

\* one call of increment_str
IncrementStr ==
    /\ pcIncr = "input"
    /\ new_s' = increment_str(varname)
    /\ pcIncr' = "done"
    /\ UNCHANGED <<varname, matchVars, findVars, restVars>>

\* the result is incremented again (insert_work's loop walks a..z, aa, ...)
IncrementAgain ==
    /\ pcIncr = "done"
    /\ Len(SuffixOf(new_s)) <= MaxSuffix
    /\ varname' = new_s
    /\ new_s' = <<>>
    /\ pcIncr' = "input"
    /\ UNCHANGED <<matchVars, findVars, restVars>>

NextIncr == IncrementStr \/ IncrementAgain

SpecIncr == InitIncr /\ [][NextIncr]_vars

-----------------------------------------------------------------------------
(* The matching functions on one record and one candidate Work *)

\* titles: the Work's title and record titles at chosen similarities to it
Title == <<97, 98, 99, 100, 101, 102, 103, 104, 105, 106>>

Title95 == Title \o <<107>>

Title90 == <<97, 98, 99, 100, 101, 102, 103, 104, 105, 120>>

Title85 == <<97, 98, 99, 100, 101, 102, 103, 104, 105, 120, 107>>

Title80 == <<97, 98, 99, 100, 101, 102, 103, 104, 120, 121>>

OtherTitle == <<113, 114, 115, 116, 117>>

MatchTitles == {Title, Title95, Title90, Title85, Title80, OtherTitle}

WorkKey == x2014 \o <<97>>

MatchInfos ==
    [name : MatchTitles, year : {0, 2014, 2015}, authors : {"A1", "A2"},
     place : {NoAttr, "IPAW", "TaPP"}, cluster_id : {NoAttr, "c1", "c2"},
     scholar_id : {NoAttr, "s1", "s2"}, pyref : {WorkKey}]

MatchWorks ==
    [name : {Title}, year : {2014}, authors : {"A1"},
     place : {NoAttr, "IPAW"}, cluster_id : {NoAttr, "c1"},
     scholar_id : {NoAttr, "s1"},
     alias_attr : {"none"}, alias : {<<>>}, aliases : {<<>>}]
    \cup
    [name : {Title}, year : {2014}, authors : {"A1"},
     place : {NoAttr, "IPAW"}, cluster_id : {NoAttr, "c1"},
     scholar_id : {NoAttr},
     alias_attr : {"alias"}, alias : {<<2015, OtherTitle, "A2">>},
     aliases : {<<>>}]
    \cup
    [name : {Title}, year : {2014}, authors : {"A1"},
     place : {NoAttr, "IPAW"}, cluster_id : {NoAttr},
     scholar_id : {NoAttr},
     alias_attr : {"aliases"}, alias : {<<>>},
     aliases : {<< <<2014, Title80>>, <<2015, OtherTitle>> >>}]

\* the increment_str component is not in use
IdleIncr ==
    /\ varname = <<>>
    /\ new_s = <<>>
    /\ pcIncr = "idle"

InitMatch ==
    /\ info \in MatchInfos
    /\ work \in MatchWorks
    /\ matched = FALSE
    /\ compared = None
    /\ pcMatch = "input"
    /\ IdleIncr
    /\ IdleFind
    /\ IdleRest

\* config.info_work_match(info, work)
InfoWorkMatch ==
    /\ pcMatch = "input"
    /\ matched' = info_work_match(info, work)
    /\ pcMatch' = "info_work_match"
    /\ UNCHANGED <<info, work, compared, incrVars, findVars, restVars>>

\* operations.compare_paper_to_work(ord("a") - 1, key, work, paper)
ComparePaperToWork ==
    /\ pcMatch = "input"
    /\ compared' = compare_paper_to_work(96, WorkKey, work, info)
    /\ pcMatch' = "compare_paper_to_work"
    /\ UNCHANGED <<info, work, matched, incrVars, findVars, restVars>>

NextMatch == InfoWorkMatch \/ ComparePaperToWork

SpecMatch == InitMatch /\ [][NextMatch]_vars

-----------------------------------------------------------------------------
(* The database: Works, year files, operations.reload *)

x2015 == <<120, 50, 48, 49, 53>>

y9999 == <<121, 57, 57, 57, 57>>

TitleUpper == <<97, 66, 99, 100>>

UnrelatedTitle == <<109, 110, 111, 112, 113, 109, 110, 111, 112, 113>>

\* the Works a database is made of; `file` is the year file defining `key`
WorkPool ==
    << [key |-> x2014 \o <<97>>, file |-> 2014, year |-> 2014, name |-> Title,
        authors |-> "A1", place |-> "IPAW", cluster_id |-> "c1",
        scholar_id |-> NoAttr, alias_attr |-> "aliases", alias |-> <<>>,
        aliases |-> << <<2015, OtherTitle, "A2">> >>,
        entrytype |-> "inproceedings", notes |-> NoAttr],
       [key |-> x2014 \o <<122>>, file |-> 2014, year |-> 2014,
        name |-> UnrelatedTitle,
        authors |-> "A1", place |-> "TaPP", cluster_id |-> NoAttr,
        scholar_id |-> NoAttr, alias_attr |-> "none", alias |-> <<>>,
        aliases |-> <<>>, entrytype |-> "inproceedings",
        notes |-> <<115, 111, 111, 110>>],
       [key |-> x2015 \o <<97>>, file |-> 2015, year |-> 2015, name |-> Title95,
        authors |-> "A2", place |-> "IPAW", cluster_id |-> "c2",
        scholar_id |-> NoAttr, alias_attr |-> "none", alias |-> <<>>,
        aliases |-> <<>>, entrytype |-> "article", notes |-> NoAttr],
       [key |-> y9999 \o <<97>>, file |-> 9999, year |-> 2016, name |-> Title,
        authors |-> "A2", place |-> NoAttr, cluster_id |-> NoAttr,
        scholar_id |-> NoAttr, alias_attr |-> "none", alias |-> <<>>,
        aliases |-> <<>>, entrytype |-> NoAttr, notes |-> NoAttr],
       [key |-> x2014 \o <<98>>, file |-> 2014, year |-> 2014,
        name |-> TitleUpper,
        authors |-> "A1", place |-> "TaPP", cluster_id |-> NoAttr,
        scholar_id |-> NoAttr, alias_attr |-> "alias",
        alias |-> <<2016, OtherTitle>>,
        aliases |-> <<>>, entrytype |-> "inproceedings", notes |-> NoAttr] >>

MaxWorks == 2

\* the databases: at most MaxWorks Works of the pool, in their year files,
\* and a y2015.py that is there in any case
Databases == {D \in SUBSET (1..Len(WorkPool)) : Cardinality(D) <= MaxWorks}

YearFiles(D) == {2015} \cup {WorkPool[w].file : w \in D}

RECURSIVE SortDesc(_)
SortDesc(S) ==
    IF S = {} THEN <<>>
    ELSE <<SetMax(S)>> \o SortDesc(S \ {SetMax(S)})

RECURSIVE SortAsc(_)
SortAsc(S) ==
    IF S = {} THEN <<>>
    ELSE <<SetMin(S)>> \o SortAsc(S \ {SetMin(S)})

\* _reload_work: every year file imported, its Works in definition order
ImportedFiles(D) ==
    [y \in YearFiles(D) |->
        LET ws == SortAsc({w \in D : WorkPool[w].file = y})
        IN  [k \in 1..Len(ws) |-> <<WorkPool[ws[k]].key, ws[k]>>]]

HasKey(items, key) == \E k \in 1..Len(items) : items[k][1] = key

\* setattr(module, key, work) on the module's dict
SetAttr(items, key, w) ==
    IF HasKey(items, key)
    THEN [k \in 1..Len(items) |->
             IF items[k][1] = key THEN <<key, w>> ELSE items[k]]
    ELSE Append(items, <<key, w>>)

\* the module an int year names: its own file, or y9999.py; 0 when neither
\* is loaded (WORK_CACHE[module] then raises KeyError)
ModuleOf(cache, year) ==
    IF year \in DOMAIN cache THEN year
    ELSE IF 9999 \in DOMAIN cache THEN 9999 ELSE 0

\* the aliases that are never registered
register_aliases_none(cache, key, w, aliases, k) == cache

\* reload, lines 170-175: the aliases of one Work registered
RECURSIVE RegisterAliases(_, _, _, _, _)
RegisterAliases(cache, key, w, aliases, k) ==
    IF k > Len(aliases) THEN cache
    ELSE LET module == ModuleOf(cache, aliases[k][1])
         IN  IF module = 0 THEN cache
             ELSE RegisterAliases(
                      [cache EXCEPT ![module] = SetAttr(@, key, w)],
                      key, w, aliases, k + 1)

\* reload, lines 163-175, over load_work_map_all_years(): the files from the
\* last year down, each file's items in dict order
RECURSIVE ReloadLoop(_, _, _, _)
ReloadLoop(cache, years, yi, ei) ==
    IF yi > Len(years) THEN cache
    ELSE IF ei > Len(cache[years[yi]]) THEN ReloadLoop(cache, years, yi + 1, 1)
    ELSE LET item == cache[years[yi]][ei]
         IN  ReloadLoop(
                 RegisterAliases(cache, item[1], item[2],
                                 AliasList(WorkPool[item[2]]), 1),
                 years, yi, ei + 1)

reload(D) ==
    ReloadLoop(ImportedFiles(D), SortDesc(YearFiles(D)), 1, 1)

\* reload raises KeyError when an alias names a year with no file and there
\* is no y9999.py
ReloadRaises(D) ==
    \E w \in D : \E k \in 1..Len(AliasList(WorkPool[w])) :
        ModuleOf(ImportedFiles(D), AliasList(WorkPool[w])[k][1]) = 0

-----------------------------------------------------------------------------
(* operations.load_work_map, load_work_map_all_years, work_by_varname *)

\* the items of every module, the modules from the last year down
load_work_map_all_years(cache) ==
    LET years == SortDesc(DOMAIN cache)
        Cat[k \in 0..Len(years)] ==
            IF k = 0 THEN <<>> ELSE Cat[k - 1] \o cache[years[k]]
    IN  Cat[Len(years)]

\* the year not looked at: the items of every module
load_work_map_any_year(cache, year) == load_work_map_all_years(cache)

\* the items of the year's module; <<>> and raises when there is no module
load_work_map(cache, year) ==
    IF ModuleOf(cache, year) = 0 THEN <<>> ELSE cache[ModuleOf(cache, year)]

load_work_map_raises(cache, year) == ModuleOf(cache, year) = 0

\* dbindex.parse_varname(varname, 2) as an int: the last four digits in a
\* row, -1 when there are none
parse_year(v) ==
    LET starts == {p \in 1..(Len(v) - 3) : \A q \in p..(p + 3) : v[q] \in digits}
        p == SetMax(starts)
    IN  IF starts = {} THEN -1
        ELSE 1000 * (v[p] - 48) + 100 * (v[p + 1] - 48)
               + 10 * (v[p + 2] - 48) + (v[p + 3] - 48)

\* the Work (0 for None) under `key` in the file of the year in `key`
work_by_varname(cache, key) ==
    LET year == parse_year(key)
    IN  IF year \notin DOMAIN cache THEN 0
        ELSE IF ~HasKey(cache[year], key) THEN 0
        ELSE LET k == CHOOSE k \in 1..Len(cache[year]) : cache[year][k][1] = key
             IN  cache[year][k][2]

-----------------------------------------------------------------------------
(* operations.find_work_by_info *)

\* lines 744-751: 'place' generated from 'entrytype'
entrytype_place(paper) ==
    IF paper.entrytype = "book" THEN [paper EXCEPT !.place = "Book"]
    ELSE IF paper.entrytype = "techreport"
    THEN [paper EXCEPT !.place = "TechReport"]
    ELSE IF paper.entrytype \in {"phdthesis", "mastersthesis"}
    THEN [paper EXCEPT !.place = "Thesis"]
    ELSE paper

WorkOf(w) == IF w = 0 THEN None ELSE WorkPool[w]

\* lines 775-780: the letter put at the end of pyref and display
set_letter(paper, letter) ==
    IF letter = 96 THEN paper
    ELSE [paper EXCEPT
             !.pyref = (IF isalpha(@[Len(@)]) THEN DropLast(@) ELSE @)
                          \o <<letter>>,
             !.display = @ \o <<32, letter>>]

\* a match that goes on to the letter instead of returning
on_match_letter(paper, letter) == set_letter(paper, letter)

\* lines 761-762 and 766-767: a match returns at once
on_match(paper, letter) == paper

\* lines 764-767: the loop over the worklist, from its item k
RECURSIVE find_scan(_, _, _, _)
find_scan(worklist, k, letter, paper) ==
    IF k > Len(worklist)
    THEN [work |-> 0, letter |-> letter, paper |-> paper, raised |-> "no"]
    ELSE LET r == compare_paper_to_work(letter, worklist[k][1],
                                        WorkOf(worklist[k][2]), paper)
         IN  IF r.raised # "no"
             THEN [work |-> 0, letter |-> r.letter, paper |-> paper,
                   raised |-> r.raised]
             ELSE IF r.work # None
             THEN [work |-> worklist[k][2], letter |-> r.letter,
                   paper |-> r.paper, raised |-> "no"]
             ELSE find_scan(worklist, k + 1, r.letter, paper)

\* lines 770-773: ord(letter) on the int letter raises TypeError
pyrefs_raises(paper, pyrefs) ==
    \E key \in pyrefs : startswith(key, paper.pyref)

\* returns the Work (0 for None), the paper as the call leaves it and the
\* exception raised, if any
find_work_by_info(cache, paper0, pyrefs) ==
    IF paper0.work_type = "Site"
    THEN [work |-> 0, paper |-> [paper0 EXCEPT !.pyref = <<78, 111, 110, 101>>],
          raised |-> "no"]
    ELSE
    LET paper == entrytype_place(paper0)
        worklist == IF paper.year = 0 THEN load_work_map_all_years(cache)
                    ELSE load_work_map(cache, paper.year)
        byid == IF paper.ID = NoAttr
                THEN [work |-> None, letter |-> 96, paper |-> paper,
                      raised |-> "no"]
                ELSE compare_paper_to_work(
                         96, paper.ID, WorkOf(work_by_varname(cache, paper.ID)),
                         paper)
        scan == find_scan(worklist, 1, byid.letter, paper)
    IN  IF byid.raised # "no"
        THEN [work |-> 0, paper |-> paper, raised |-> byid.raised]
        ELSE IF byid.work # None
        THEN [work |-> work_by_varname(cache, paper.ID),
              paper |-> on_match(byid.paper, byid.letter), raised |-> "no"]
        ELSE IF paper.year # 0 /\ load_work_map_raises(cache, paper.year)
        THEN [work |-> 0, paper |-> paper, raised |-> "KeyError"]
        ELSE IF scan.raised # "no"
        THEN [work |-> 0, paper |-> paper, raised |-> scan.raised]
        ELSE IF scan.work # 0
        THEN [work |-> scan.work, paper |-> on_match(scan.paper, scan.letter),
              raised |-> "no"]
        ELSE IF pyrefs_raises(paper, pyrefs)
        THEN [work |-> 0, paper |-> paper, raised |-> "TypeError"]
        ELSE [work |-> 0, paper |-> set_letter(paper, scan.letter),
              raised |-> "no"]

-----------------------------------------------------------------------------
(* operations.work_to_bibtex_entry, bibtex_to_info, match_bibtex_to_work *)

\* str(int), for an int that is not negative
RECURSIVE str_int(_)
str_int(n) ==
    IF n < 10 THEN <<48 + n>> ELSE str_int(n \div 10) \o <<48 + (n % 10)>>

\* int(str) raises ValueError unless the string is made of digits
int_raises(s) == s = <<>> \/ \E k \in 1..Len(s) : s[k] \notin digits

RECURSIVE int_str(_)
int_str(s) ==
    IF s = <<>> THEN 0 ELSE 10 * int_str(DropLast(s)) + (s[Len(s)] - 48)

\* sub in s
Contains(s, sub) ==
    \E p \in 1..(Len(s) - Len(sub) + 1) : SubSeq(s, p, p + Len(sub) - 1) = sub

IsUpper(c) == c \in 65..90

\* bibtexparser's protect_uppercase, re.sub of '([^{]|^)([A-Z])([^}]|$)' by
\* '\g<1>{\g<2>}\g<3>', from position s of the title a
RECURSIVE protect_from(_, _)
protect_from(a, s) ==
    IF s > Len(a) THEN <<>>
    ELSE IF /\ s + 1 <= Len(a)
            /\ a[s] # 123
            /\ IsUpper(a[s + 1])
            /\ (s + 2 > Len(a) \/ a[s + 2] # 125)
    THEN <<a[s], 123, a[s + 1], 125>>
           \o (IF s + 2 <= Len(a) THEN <<a[s + 2]>> ELSE <<>>)
           \o protect_from(a, s + 3)
    ELSE IF s = 1 /\ IsUpper(a[1]) /\ (Len(a) = 1 \/ a[2] # 125)
    THEN <<123, a[1], 125>>
           \o (IF Len(a) >= 2 THEN <<a[2]>> ELSE <<>>)
           \o protect_from(a, 3)
    ELSE <<a[s]>> \o protect_from(a, s + 1)

\* homogeneize_latex_encoding on the title
protect_uppercase(title) == protect_from(title, 1)

\* WORK_BIBTEX_MAP["place"]: the entry field the place goes to
place_field(w) ==
    IF w.entrytype \in {"incollection", "inproceedings", "misc"}
    THEN "booktitle"
    ELSE IF w.entrytype = "article" THEN "journal"
    ELSE ""

InPress == <<105, 110, 32, 112, 114, 101, 115, 115>>

\* the entry dict of the Work under `metakey` (absent fields are NoAttr)
work_to_bibtex_entry(w) ==
    [ID |-> w.key,
     ENTRYTYPE |-> IF w.entrytype = NoAttr THEN "misc" ELSE w.entrytype,
     year |-> str_int(w.year)
                \o (IF w.notes = NoAttr THEN <<>>
                    ELSE <<32, 91>> \o w.notes \o <<93>>),
     title |-> protect_uppercase(w.name),
     author |-> w.authors,
     booktitle |-> IF w.place # NoAttr /\ place_field(w) = "booktitle"
                   THEN PlaceName[w.place] ELSE NoAttr,
     journal |-> IF w.place # NoAttr /\ place_field(w) = "journal"
                 THEN PlaceName[w.place] ELSE NoAttr]

\* the places module: variable name -> Place.acronym
PlaceAcronym ==
    [Book |-> <<66, 111, 111, 107>>, IPAW |-> <<73, 80, 65, 87>>,
     TaPP |-> <<84, 97, 80, 80>>,
     TechReport |-> <<84, 101, 99, 104, 32, 82, 101, 112, 111, 114, 116>>,
     Thesis |-> <<84, 104, 101, 115, 105, 115>>]

\* the order of the variable names as Python strings
PlaceRank == [Book |-> 1, IPAW |-> 2, TaPP |-> 3, TechReport |-> 4, Thesis |-> 5]

\* set_place, line 356-361: the score of one place
place_score(place, v) ==
    IF place = PlaceAcronym[v] THEN [num |-> 1, den |-> 1]
    ELSE compare_str(place, PlaceName[v])

RatioLess(r1, r2) == r1.num * r2.den < r2.num * r1.den

\* set_place: info["place"], NoAttr when it is not set
set_place(place1) ==
    LET place == SelectSeq(place1, LAMBDA c : c \notin digits)
        Better(u, v) ==
            \/ RatioLess(place_score(place, u), place_score(place, v))
            \/ /\ ~RatioLess(place_score(place, v), place_score(place, u))
               /\ PlaceRank[u] < PlaceRank[v]
        maxmatch == CHOOSE v \in PlaceVars :
                        \A u \in PlaceVars \ {v} : Better(u, v)
    IN  IF \/ ~RatioLess(place_score(place, maxmatch), [num |-> 8, den |-> 10])
           \/ Contains(place, PlaceName[maxmatch])
        THEN maxmatch
        ELSE NoAttr

\* set_display on the author strings of the model: the last name, lowercase
LastName == [A1 |-> <<120>>, A2 |-> <<121>>]

\* set_pyref: {display}{year} and the first letter no Work has
set_pyref(cache, display, year) ==
    LET pyref == display \o str_int(year)
        free == {l \in ascii_lowercase :
                    work_by_varname(cache, pyref \o <<l>>) = 0}
    IN  pyref \o <<IF free = {} THEN 122 ELSE SetMin(free)>>

\* line 222-225: '[in press]' cut off the year
entry_year(entry) ==
    IF Contains(entry.year, <<91>> \o InPress \o <<93>>)
    THEN SubSeq(entry.year, 1, 4)
    ELSE entry.year

bibtex_to_info_raises(entry) == int_raises(entry_year(entry))

bibtex_to_info(cache, entry) ==
    LET place1 == IF entry.journal # NoAttr /\ entry.journal # <<>>
                  THEN entry.journal
                  ELSE IF entry.booktitle # NoAttr /\ entry.booktitle # <<>>
                  THEN entry.booktitle
                  ELSE <<>>
        year == int_str(entry_year(entry))
    IN  [name |-> entry.title, authors |-> entry.author, year |-> year,
         place |-> set_place(place1), entrytype |-> entry.ENTRYTYPE,
         display |-> LastName[entry.author],
         pyref |-> set_pyref(cache, LastName[entry.author], year),
         ID |-> entry.ID, cluster_id |-> NoAttr, scholar_id |-> NoAttr,
         work_type |-> NoAttr]

\* match_bibtex_to_work, line 1030-1031: the braces taken out of the title
strip_braces(entry) ==
    [entry EXCEPT !.title = SelectSeq(@, LAMBDA c : c \notin {123, 125})]

-----------------------------------------------------------------------------
(* The database and the calls of find_work_by_info *)

\* records: a title of a Work, one close to it, or another one
Papers ==
    [name : {Title, Title90, OtherTitle}, year : {0, 2014, 2015, 2016},
     authors : {"A1", "A2"}, place : {NoAttr, "IPAW"},
     cluster_id : {NoAttr, "c1"}, scholar_id : {NoAttr},
     ID : {NoAttr, x2014 \o <<97>>},
     pyref : {x2014 \o <<97>>, y9999 \o <<97>>}, display : {<<120>>},
     entrytype : {NoAttr, "book"}, work_type : {NoAttr}]
    \cup
    [name : {Title}, year : {2014},
     authors : {"A1"}, place : {NoAttr},
     cluster_id : {NoAttr}, scholar_id : {NoAttr},
     ID : {NoAttr},
     pyref : {x2014 \o <<97>>}, display : {<<120>>},
     entrytype : {NoAttr}, work_type : {"Site"}]

PyrefSets == {{}, {x2014 \o <<97>>}}

Init ==
    /\ \E D \in Databases : ~ReloadRaises(D) /\ WORK_CACHE = reload(D)
    /\ given = None
    /\ paperOut = None
    /\ found = 0
    /\ raised = "no"
    /\ op = "reload"
    /\ IdleIncr
    /\ IdleMatch
    /\ IdleRest

\* find_work_by_info(paper, pyrefs) on a new record, the database just loaded
FindWorkByInfo ==
    /\ op = "reload"
    /\ \E p \in Papers, ps \in PyrefSets :
        \E r \in {find_work_by_info(WORK_CACHE, p, ps)} :
            /\ given' = [paper |-> p, pyrefs |-> ps, work |-> 0]
            /\ paperOut' = r.paper
            /\ found' = r.work
            /\ raised' = r.raised
            /\ op' = "find"
            /\ UNCHANGED <<WORK_CACHE, incrVars, matchVars, restVars>>

\* find_work_by_info called again on the record as the last call left it
FindAgain ==
    /\ op = "find"
    /\ raised = "no"
    /\ \E r \in {find_work_by_info(WORK_CACHE, paperOut, given.pyrefs)} :
           /\ paperOut' = r.paper
           /\ found' = r.work
           /\ raised' = r.raised
           /\ op' = "again"
           /\ UNCHANGED <<WORK_CACHE, given, incrVars, matchVars, restVars>>

\* find_work_by_info(bibtex_to_info(work_to_bibtex_entry(work))), the Work
\* one of the database
RoundTripEntry ==
    /\ op = "reload"
    /\ \E year \in DOMAIN WORK_CACHE : \E k \in 1..Len(WORK_CACHE[year]) :
        LET w == WORK_CACHE[year][k][2]
            entry == work_to_bibtex_entry(WorkPool[w])
        IN  \E r \in {IF bibtex_to_info_raises(entry)
                      THEN [work |-> 0, paper |-> None, raised |-> "ValueError"]
                      ELSE find_work_by_info(
                               WORK_CACHE, bibtex_to_info(WORK_CACHE, entry),
                               {})} :
                /\ given' = [paper |-> entry, pyrefs |-> {}, work |-> w]
                /\ paperOut' = r.paper
                /\ found' = r.work
                /\ raised' = r.raised
                /\ op' = "entry"
                /\ UNCHANGED <<WORK_CACHE, incrVars, matchVars, restVars>>

\* match_bibtex_to_work(work_to_bibtex(work)), the Work one of the database;
\* the text written and parsed again holds the fields of the entry
RoundTripBibtex ==
    /\ op = "reload"
    /\ \E year \in DOMAIN WORK_CACHE : \E k \in 1..Len(WORK_CACHE[year]) :
        LET w == WORK_CACHE[year][k][2]
            entry == strip_braces(work_to_bibtex_entry(WorkPool[w]))
        IN  \E r \in {IF bibtex_to_info_raises(entry)
                      THEN [work |-> 0, paper |-> None, raised |-> "ValueError"]
                      ELSE find_work_by_info(
                               WORK_CACHE, bibtex_to_info(WORK_CACHE, entry),
                               {})} :
                /\ given' = [paper |-> entry, pyrefs |-> {}, work |-> w]
                /\ paperOut' = r.paper
                /\ found' = r.work
                /\ raised' = r.raised
                /\ op' = "bibtex"
                /\ UNCHANGED <<WORK_CACHE, incrVars, matchVars, restVars>>

Next == FindWorkByInfo \/ FindAgain \/ RoundTripEntry \/ RoundTripBibtex

Spec == Init /\ [][Next]_vars

-----------------------------------------------------------------------------
(* rules.ConvertDict and rules.ConvertWork                                 *)
(* A dict is a sequence of <<key, value>> items in insertion order; keys   *)
(* and values are strings, NoneV is Python's None.  An element of a        *)
(* command is [e, a]: the str a ("str"), lambda x: x.get(a) ("old"),       *)
(* lambda old, new: new.get(a) ("new") or a callable giving None ("None"). *)
(* A command is [form |-> "key", to] (a new key for the attribute) or      *)
(* [form |-> "tuple", key, value].                                         *)

NoneV == "<None>"

Keys(d) == {d[k][1] : k \in 1..Len(d)}

Has(d, key) == key \in Keys(d)

\* d[key], or None when the key is not there (dict.get)
Get(d, key) ==
    IF Has(d, key)
    THEN d[CHOOSE k \in 1..Len(d) : d[k][1] = key][2]
    ELSE NoneV

\* the assignment that leaves a key alone when the dict has it already
put_first_wins(d, key, value) ==
    IF Has(d, key) THEN d ELSE Append(d, <<key, value>>)

\* d[key] = value: the item keeps its place, a new key goes last
Put(d, key, value) ==
    IF Has(d, key)
    THEN [k \in 1..Len(d) |-> IF d[k][1] = key THEN <<key, value>> ELSE d[k]]
    ELSE Append(d, <<key, value>>)

\* del d[key]
Del(d, key) == SelectSeq(d, LAMBDA item : item[1] # key)

\* collection_helpers.setitem: nothing is set for None
setitem(d, key, value) == IF value = NoneV THEN d ELSE Put(d, key, value)

\* str(value)
str_value(v) ==
    IF v = NoneV THEN "None" ELSE IF v = "int:7" THEN "7" ELSE v

process_element(command, new, original, current) ==
    IF command.e = "str" THEN command.a
    ELSE IF command.e = "old" THEN Get(original, command.a)
    ELSE IF command.e = "new" THEN Get(new, command.a)
    ELSE NoneV

\* ConvertDict.apply from command k on; `written` lists the assignments to
\* new: <<stage, key assigned, attribute whose rule it is, value>>
RECURSIVE apply_from(_, _, _, _, _, _, _, _)
apply_from(new, original, current, commands, key, stage, written, k) ==
    IF k > Len(commands) THEN [new |-> new, written |-> written]
    ELSE LET command == commands[k]
             new_key == IF command.form = "tuple"
                        THEN process_element(command.key, new, original, current)
                        ELSE process_element(command.to, new, original, current)
             new_value == IF command.form = "tuple"
                          THEN process_element(command.value, new, original,
                                               current)
                          ELSE Get(original, key)
             assigns == IF command.form = "tuple"
                        THEN new_key # NoneV /\ new_value # NoneV
                        ELSE Has(original, key) /\ new_key # NoneV
         IN  IF assigns
             THEN apply_from(Put(new, new_key, new_value), original, current,
                             commands, key, stage,
                             Append(written, <<stage, new_key, key, new_value>>),
                             k + 1)
             ELSE apply_from(new, original, current, commands, key, stage,
                             written, k + 1)

apply(new, original, current, commands, key, stage, written) ==
    apply_from(new, original, current, commands, key, stage, written, 1)

Reverse(q) == [k \in 1..Len(q) |-> q[Len(q) + 1 - k]]

\* ConvertDict.attrs: the keys; ConvertWork.attrs: the attributes in use,
\* last first, that the object has and <ignore> does not name
attrs(kind, rules, original) ==
    IF kind = "dict" THEN [k \in 1..Len(original) |-> original[k][1]]
    ELSE SelectSeq(Reverse(rules.use),
                   LAMBDA key : Has(original, key) /\ key \notin rules.ignore)

\* ConvertDict.new_current: copy(original); ConvertWork.new_current: set(),
\* kept as the items <<key, "">> of the keys added
new_current(kind, original) == IF kind = "dict" THEN original ELSE <<>>

\* the attribute not marked as used
indicate_usage_none(kind, current, key) == current

\* ConvertDict.indicate_usage: consume; ConvertWork.indicate_usage: add
indicate_usage(kind, current, key) ==
    IF kind = "dict" THEN Del(current, key) ELSE Put(current, key, "")

\* the <<key, value>> items that are left for the copy
iterate_remaining(kind, rules, original, current) ==
    IF kind = "dict" THEN current
    ELSE LET keys == SelectSeq(attrs(kind, rules, original),
                               LAMBDA key : ~Has(current, key))
         IN  [k \in 1..Len(keys) |->
                 <<keys[k], str_value(Get(original, keys[k]))>>]

\* run, lines 65-68: the rules of the attributes, from attribute k on
RECURSIVE run_fields(_, _, _)
run_fields(c, keys, k) ==
    IF k > Len(keys) THEN c
    ELSE IF keys[k] \notin DOMAIN c.rules.fields THEN run_fields(c, keys, k + 1)
    ELSE LET r == apply(c.new, c.original, c.current,
                        c.rules.fields[keys[k]], keys[k], "fields", c.written)
         IN  run_fields([c EXCEPT !.new = r.new, !.written = r.written,
                                  !.current = indicate_usage(c.kind, @, keys[k])],
                        keys, k + 1)

\* the copy that leaves a key alone when the output has it already
copy_item_keep(new, written, key, value) ==
    IF value = NoneV \/ Has(new, key) THEN [new |-> new, written |-> written]
    ELSE [new |-> Put(new, key, value),
          written |-> Append(written, <<"copy", key, key, value>>)]

\* run, line 72: setitem(new, key, value)
copy_item(new, written, key, value) ==
    IF value = NoneV THEN [new |-> new, written |-> written]
    ELSE [new |-> setitem(new, key, value),
          written |-> Append(written, <<"copy", key, key, value>>)]

\* run, lines 71-72: the remaining items copied, from item k on
RECURSIVE run_copy(_, _, _)
run_copy(c, items, k) ==
    IF k > Len(items) THEN c
    ELSE LET r == copy_item(c.new, c.written, items[k][1], items[k][2])
         IN  run_copy([c EXCEPT !.new = r.new, !.written = r.written],
                      items, k + 1)

\* one stage of run that is a list of commands applied to `source`
run_stage(c, stage, commands, source) ==
    LET r == apply(c.new, source, c.current, commands, NoneV, stage, c.written)
    IN  [c EXCEPT !.new = r.new, !.written = r.written]

-----------------------------------------------------------------------------
(* One call of run(original, article), stage by stage *)

StrE(x) == [e |-> "str", a |-> x]

OldE(key) == [e |-> "old", a |-> key]

NewE(key) == [e |-> "new", a |-> key]

AbsentE == [e |-> "absent", a |-> ""]

KeyC(to) == [form |-> "key", to |-> to, key |-> AbsentE, value |-> AbsentE]

TupleC(key, value) ==
    [form |-> "tuple", to |-> AbsentE, key |-> key, value |-> value]

\* rule tables in the shapes of config.BIBTEX_TO_INFO: stages that set a
\* key of their own or one a field rule or the copy also sets; two
\* attributes renamed to one key; an attribute read by a callable
RuleTables ==
    [before : {<<>>, <<TupleC(StrE("x"), StrE("P"))>>,
               <<TupleC(StrE("c"), StrE("P"))>>},
     fields : {<<>>,
               [a |-> <<KeyC(StrE("x"))>>],
               [a |-> <<KeyC(StrE("x")), KeyC(StrE("y"))>>,
                b |-> <<KeyC(StrE("x"))>>],
               [a |-> <<TupleC(StrE("n"), OldE("a"))>>],
               [a |-> <<KeyC(StrE("a"))>>]},
     middle : {<<>>, <<TupleC(StrE("y"), NewE("x"))>>},
     article : {<<>>, <<TupleC(StrE("x"), OldE("t"))>>},
     after : {<<>>, <<TupleC(StrE("c"), StrE("F"))>>,
              <<TupleC(StrE("x"), NewE("c"))>>},
     result : {AbsentE, NewE("x")},
     use : {<<"a", "b", "c">>},
     ignore : {{}, {"a"}, {"c"}}]

CValues == {"C", NoneV, "int:7"}

Originals ==
    {<<>>, << <<"a", "A">> >>, << <<"a", "A">>, <<"b", "B">> >>,
     << <<"b", "B">>, <<"a", "A">> >>}
    \cup {<< <<"c", v>> >> : v \in CValues}
    \cup {<< <<"a", "A">>, <<"c", v>> >> : v \in CValues}
    \cup {<< <<"a", "A">>, <<"b", "B">>, <<"c", v>> >> : v \in CValues}

TheArticle == << <<"t", "T">> >>

\* the frame of run when it is entered
Frames ==
    {[pc |-> "before", kind |-> kind, rules |-> rules, original |-> original,
      has_article |-> has_article, article |-> TheArticle,
      new |-> <<>>, current |-> new_current(kind, original),
      written |-> <<>>, returns_new |-> TRUE, value |-> ""] :
        kind \in {"dict", "work"}, rules \in RuleTables,
        original \in Originals, has_article \in BOOLEAN}

\* a frame that is not the same call as another one of the set: ConvertDict
\* reads no <ignore>, and the article matters only to an <article> rule
FrameInUse(c) ==
    /\ c.kind = "dict" => c.rules.ignore = {}
    /\ c.rules.article = <<>> => ~c.has_article

InitConv ==
    /\ conv \in {c \in Frames : FrameInUse(c)}
    /\ IdleIncr
    /\ IdleMatch
    /\ IdleFind
    /\ IdleReload
    /\ IdlePyref
    /\ IdleCite
    /\ IdleDry
    /\ IdleStrategy
    /\ IdleProv
    /\ IdleScholar
    /\ IdleSession

UnchangedByConv == UNCHANGED <<incrVars, matchVars, findVars, reloadVars, pyrefVars, citeVars, dryVars, strategyVars, provVars, scholarVars, sessionVars>>

\* the stage of run the frame is at, done
run_step(c) ==
    IF c.pc = "before"
    THEN [run_stage(c, "before", c.rules.before, c.original)
             EXCEPT !.pc = "fields"]
    ELSE IF c.pc = "fields"
    THEN [run_fields(c, attrs(c.kind, c.rules, c.original), 1)
             EXCEPT !.pc = "middle"]
    ELSE IF c.pc = "middle"
    THEN [run_stage(c, "middle", c.rules.middle, c.original)
             EXCEPT !.pc = "copy"]
    ELSE IF c.pc = "copy"
    THEN [run_copy(c, iterate_remaining(c.kind, c.rules, c.original,
                                        c.current), 1)
             EXCEPT !.pc = "article"]
    ELSE IF c.pc = "article"
    THEN [(IF c.has_article
           THEN run_stage(c, "article", c.rules.article, c.article)
           ELSE c)
             EXCEPT !.pc = "after"]
    ELSE IF c.pc = "after"
    THEN [run_stage(c, "after", c.rules.after, c.original)
             EXCEPT !.pc = "result"]
    ELSE IF c.pc = "result"
    THEN IF c.rules.result = AbsentE
         THEN [c EXCEPT !.pc = "done"]
         ELSE [c EXCEPT !.pc = "done", !.returns_new = FALSE,
                        !.value = process_element(c.rules.result, c.new,
                                                  c.original, c.current)]
    ELSE c

\* run from the stage the frame is at to its return
RECURSIVE run(_)
run(c) == IF c.pc = "done" THEN c ELSE run(run_step(c))

\* line 63-64
RunBefore ==
    /\ conv.pc = "before"
    /\ conv' = run_step(conv)
    /\ UnchangedByConv

\* line 65-68
RunFields ==
    /\ conv.pc = "fields"
    /\ conv' = run_step(conv)
    /\ UnchangedByConv

\* line 69-70
RunMiddle ==
    /\ conv.pc = "middle"
    /\ conv' = run_step(conv)
    /\ UnchangedByConv

\* line 71-72
RunCopy ==
    /\ conv.pc = "copy"
    /\ conv' = run_step(conv)
    /\ UnchangedByConv

\* line 74-75
RunArticle ==
    /\ conv.pc = "article"
    /\ conv' = run_step(conv)
    /\ UnchangedByConv

\* line 76-77
RunAfter ==
    /\ conv.pc = "after"
    /\ conv' = run_step(conv)
    /\ UnchangedByConv

\* line 78-80
RunResult ==
    /\ conv.pc = "result"
    /\ conv' = run_step(conv)
    /\ UnchangedByConv

NextConv ==
    \/ RunBefore \/ RunFields \/ RunMiddle \/ RunCopy
    \/ RunArticle \/ RunAfter \/ RunResult

SpecConv == InitConv /\ [][NextConv]_vars

-----------------------------------------------------------------------------
(* reload() after reload(), the files edited in between                    *)
(* importlib.reload runs a file again in the dict of its module: a name    *)
(* the file no longer defines keeps its old value, and so does a name set  *)
(* by setattr.  A module of WORK_CACHE is never taken out of it.           *)
(* An object is [wid, aliased, fresh]: the Work of the pool it was made    *)
(* from, whether it was made with its aliases, and whether the last        *)
(* reload() made it.                                                       *)

\* the files: a set of <<Work, defined with its aliases>>
DefinedWorks(d) == {e[1] : e \in d}

\* the Works the files are edited with: x2014a with an alias in 2015, x2014z
\* with none, y9999a of y9999.py, x2014b with an alias in 2016
EditedWorks == {1, 2, 4, 5}

Disks ==
    {d \in SUBSET (EditedWorks \X BOOLEAN) :
        /\ Cardinality(DefinedWorks(d)) = Cardinality(d)
        /\ \A e \in d : ~e[2] => AliasList(WorkPool[e[1]]) # <<>>}

\* the object a file makes for its entry e when it is run
NewObject(e) == [wid |-> e[1], aliased |-> e[2], fresh |-> TRUE]

ObjectAliases(o) == IF o.aliased THEN AliasList(WorkPool[o.wid]) ELSE <<>>

\* the objects of the last reload() are old ones for the next
Aged(items) ==
    [k \in 1..Len(items) |-> <<items[k][1], [items[k][2] EXCEPT !.fresh = FALSE]>>]

\* a file run in the dict of its module: its names bound, the others left
RECURSIVE exec_file(_, _, _)
exec_file(items, defs, k) ==
    IF k > Len(defs) THEN items
    ELSE exec_file(SetAttr(items, WorkPool[defs[k][1]].key, NewObject(defs[k])),
                   defs, k + 1)

\* the entries of the file of year y, in the order of the file
FileEntries(d, y) ==
    LET ws == SortAsc({e[1] : e \in {x \in d : WorkPool[x[1]].file = y}})
    IN  [k \in 1..Len(ws) |-> CHOOSE e \in d : e[1] = ws[k]]

\* _reload_work: the files on disk imported, or run again in their modules;
\* the modules of files that are gone stay as they are
reload_work(mods, d) ==
    [y \in DOMAIN mods \cup YearFiles(DefinedWorks(d)) |->
        IF y \in YearFiles(DefinedWorks(d))
        THEN exec_file(IF y \in DOMAIN mods THEN Aged(mods[y]) ELSE <<>>,
                       FileEntries(d, y), 1)
        ELSE Aged(mods[y])]

\* an alias of the object names a year with no module when there is no
\* y9999.py either
alias_raises(cache, o) ==
    \E k \in 1..Len(ObjectAliases(o)) :
        ModuleOf(cache, ObjectAliases(o)[k][1]) = 0

\* reload, lines 163-175, over the modules from the last year down and the
\* items of each as they are when the loop gets to them
RECURSIVE reload_aliases(_, _, _, _)
reload_aliases(cache, years, yi, ei) ==
    IF yi > Len(years) THEN [cache |-> cache, raised |-> "ok"]
    ELSE IF ei > Len(cache[years[yi]])
    THEN reload_aliases(cache, years, yi + 1, 1)
    ELSE LET item == cache[years[yi]][ei]
             next == RegisterAliases(cache, item[1], item[2],
                                     ObjectAliases(item[2]), 1)
         IN  IF alias_raises(cache, item[2])
             THEN [cache |-> next, raised |-> "KeyError"]
             ELSE reload_aliases(next, years, yi, ei + 1)

ReloadInit ==
    /\ disk \in Disks
    /\ modules = <<>>
    /\ registry = {}
    /\ reloaded = "no"
    /\ IdleIncr
    /\ IdleMatch
    /\ IdleFind
    /\ IdleConv
    /\ IdlePyref
    /\ IdleCite
    /\ IdleDry
    /\ IdleStrategy
    /\ IdleProv
    /\ IdleScholar
    /\ IdleSession

UnchangedByReload == UNCHANGED <<incrVars, matchVars, findVars, conv, pyrefVars, citeVars, dryVars, strategyVars, provVars, scholarVars, sessionVars>>

\* reload()
Reload ==
    /\ \E r \in {reload_aliases(reload_work(modules, disk),
                                SortDesc(DOMAIN reload_work(modules, disk)),
                                1, 1)} :
           /\ modules' = r.cache
           /\ reloaded' = r.raised
    /\ registry' = {NewObject(e) : e \in disk}
    /\ UNCHANGED disk
    /\ UnchangedByReload

\* the files edited: Works and aliases taken out or put in
EditFiles ==
    /\ reloaded # "no"
    /\ \E d \in Disks : d # disk /\ disk' = d
    /\ reloaded' = "no"
    /\ UNCHANGED <<modules, registry>>
    /\ UnchangedByReload

NextReload == Reload \/ EditFiles

SpecReload == ReloadInit /\ [][NextReload]_vars

-----------------------------------------------------------------------------
(* set_pyref and info_to_pyref, one record after the other inserted         *)

\* config.info_to_pyref: the same loop as set_pyref
info_to_pyref(cache, display, year) ==
    LET pyref == display \o str_int(year)
        free == {l \in ascii_lowercase :
                    work_by_varname(cache, pyref \o <<l>>) = 0}
    IN  pyref \o <<IF free = {} THEN 122 ELSE SetMin(free)>>

\* the letters of the Works x2014<letter> a database starts with
TakenLetters ==
    {{}, {97}, {97, 98}, {98}, {97, 99}, {122}, 97..121, ascii_lowercase}

\* the Works x2014<letter> as the items of one module
LetterItems(letters) ==
    LET ls == SortAsc(letters)
    IN  [k \in 1..Len(ls) |-> <<x2014 \o <<ls[k]>>, 1>>]

\* the databases: y2015.py, and the Works x2014<letter> in y2014.py or, with
\* no y2014.py, in y9999.py
PyrefDatabases ==
    {(2015 :> <<>>) @@ (f :> LetterItems(ls)) :
        f \in {2014, 9999}, ls \in TakenLetters}

InitPyref ==
    /\ pyrefCache \in PyrefDatabases
    /\ newPyref = <<>>
    /\ pcPyref = "ready"
    /\ IdleIncr
    /\ IdleMatch
    /\ IdleFind
    /\ IdleConv
    /\ IdleReload
    /\ IdleCite
    /\ IdleDry
    /\ IdleStrategy
    /\ IdleProv
    /\ IdleScholar
    /\ IdleSession

UnchangedByPyref == UNCHANGED <<incrVars, matchVars, findVars, conv, reloadVars, citeVars, dryVars, strategyVars, provVars, scholarVars, sessionVars>>

\* set_pyref({'display': 'x', 'year': 2014})
SetPyref ==
    /\ pcPyref = "ready"
    /\ newPyref' = set_pyref(pyrefCache, <<120>>, 2014)
    /\ pcPyref' = "set_pyref"
    /\ UNCHANGED pyrefCache
    /\ UnchangedByPyref

\* info_to_pyref({'display': 'x', 'year': 2014})
InfoToPyref ==
    /\ pcPyref = "ready"
    /\ newPyref' = info_to_pyref(pyrefCache, <<120>>, 2014)
    /\ pcPyref' = "info_to_pyref"
    /\ UNCHANGED pyrefCache
    /\ UnchangedByPyref

\* the record inserted under its identifier in y2014.py, and the database
\* loaded again
InsertPyref ==
    /\ pcPyref \in {"set_pyref", "info_to_pyref"}
    /\ pyrefCache' =
           [y \in DOMAIN pyrefCache \cup {2014} |->
               IF y = 2014
               THEN SetAttr(IF 2014 \in DOMAIN pyrefCache
                            THEN pyrefCache[2014] ELSE <<>>, newPyref, 1)
               ELSE pyrefCache[y]]
    /\ pcPyref' = "ready"
    /\ UNCHANGED newPyref
    /\ UnchangedByPyref

NextPyref == SetPyref \/ InfoToPyref \/ InsertPyref

SpecPyref == InitPyref /\ [][NextPyref]_vars

-----------------------------------------------------------------------------
(* Converter.citation, Converter.set_variable and                           *)
(* config.convert_citation_text_lines_to_info                               *)

whitespace == {9, 10, 13, 32}

\* str.strip()
RECURSIVE lstrip(_)
lstrip(s) ==
    IF s # <<>> /\ s[1] \in whitespace THEN lstrip(Tail(s)) ELSE s

RECURSIVE rstrip(_)
rstrip(s) ==
    IF s # <<>> /\ s[Len(s)] \in whitespace THEN rstrip(DropLast(s)) ELSE s

strip(s) == lstrip(rstrip(s))

\* str.split(sep): cut at each occurrence of sep, from the left
RECURSIVE split(_, _)
split(s, sep) ==
    LET at == {p \in 1..(Len(s) - Len(sep) + 1) :
                  SubSeq(s, p, p + Len(sep) - 1) = sep}
        p == SetMin(at)
    IN  IF at = {} THEN <<s>>
        ELSE <<SubSeq(s, 1, p - 1)>>
                 \o split(SubSeq(s, p + Len(sep), Len(s)), sep)

\* sep.join(parts)
RECURSIVE join(_, _)
join(sep, parts) ==
    IF parts = <<>> THEN <<>>
    ELSE IF Len(parts) = 1 THEN parts[1]
    ELSE parts[1] \o sep \o join(sep, Tail(parts))

\* str.isnumeric(): the digits and the characters with a numeric value that
\* int() does not read, of which the superscript two
numeric == digits \cup {178}

isnumeric(s) == s # <<>> /\ \A k \in 1..Len(s) : s[k] \in numeric

Incomplete == [incomplete |-> TRUE]

\* the layout the lines of one block are of, "" when of none
layout_of(lines) ==
    LET last == strip(lines[Len(lines)])
    IN  IF startswith(last, <<62>>) /\ Len(lines) >= 2 THEN "Ref"
        ELSE IF startswith(last, <<104, 116, 116, 112>>) /\ Len(lines) >= 3
        THEN "Site"
        ELSE IF Len(lines) >= 5 /\ isnumeric(last) THEN "Work"
        ELSE ""

\* int(lines[-1].strip()) raises ValueError
layout_raises(lines) ==
    layout_of(lines) = "Work" /\ int_raises(strip(lines[Len(lines)]))

\* the lines between the fields and the last: key=value or other<num>
other_items(other) ==
    [num \in 1..Len(other) |->
        LET line == strip(other[num])
            splitted == split(line, <<61>>)
        IN  IF Len(splitted) > 1
            THEN <<splitted[1], join(<<61>>, Tail(splitted))>>
            ELSE <<<<111, 116, 104, 101, 114>> \o str_int(num), line>>]

\* the entry of one block; its keys from key=value lines are kept in `other`
lines_info(lines) ==
    IF layout_of(lines) = "Ref"
    THEN [citation_id |-> strip(lines[1]),
          pyref |-> strip(Tail(lines[Len(lines)])),
          work_type |-> "Ref",
          other |-> other_items(SubSeq(lines, 2, Len(lines) - 1))]
    ELSE IF layout_of(lines) = "Site"
    THEN [citation_id |-> strip(lines[1]),
          name |-> strip(lines[2]),
          url |-> strip(lines[Len(lines)]),
          work_type |-> "Site",
          other |-> other_items(SubSeq(lines, 3, Len(lines) - 1))]
    ELSE IF layout_of(lines) = "Work"
    THEN [citation_id |-> strip(lines[1]),
          authors |-> strip(lines[2]),
          name |-> strip(lines[3]),
          place1 |-> strip(lines[4]),
          year |-> int_str(strip(lines[Len(lines)])),
          work_type |-> "Work",
          other |-> other_items(SubSeq(lines, 5, Len(lines) - 1))]
    ELSE Incomplete

convert_citation_text_lines_to_info(text) ==
    lines_info(split(strip(text), <<10>>))

convert_citation_text_lines_raises(text) ==
    layout_raises(split(strip(text), <<10>>))

\* Converter.citation: the blocks of the text, and the list of their entries
citation_elements(inputpdf) == split(inputpdf, <<10, 10>>)

citation(inputpdf) ==
    LET elements == citation_elements(inputpdf)
    IN  [k \in 1..Len(elements) |->
            lines_info(split(strip(elements[k]), <<10>>))]

citation_raises(inputpdf) ==
    \E k \in 1..Len(citation_elements(inputpdf)) :
        layout_raises(split(strip(citation_elements(inputpdf)[k]), <<10>>))

\* the list without its "Incomplete" entries
set_variable(jresult) == SelectSeq(jresult, LAMBDA x : x # Incomplete)

\* the lines of the texts: [1], > x, http, 7, the superscript two, a, k=v and
\* the empty line
IdLine == <<91, 49, 93>>

LastLines ==
    {<<62, 32, 120>>, <<104, 116, 116, 112>>, <<55>>, <<178>>, <<97>>,
     <<107, 61, 118>>, <<>>}

MiddleLines == {<<97>>, <<107, 61, 118>>}

\* a block: [1], up to three lines, and a last line; or one line alone
TextBlocks ==
    LastLines
    \cup {join(<<10>>, <<IdLine>> \o m \o <<l>>) :
            m \in {<<>>} \cup UNION {[1..n -> MiddleLines] : n \in 1..3},
            l \in LastLines}

\* the texts: one block, or two with an empty line between them
Texts ==
    TextBlocks \cup {join(<<10, 10>>, <<a, b>>) : a, b \in TextBlocks}

InitCite ==
    /\ frompdf \in Texts
    /\ output = <<>>
    /\ label = 0
    /\ article_list = <<>>
    /\ lineInfo = None
    /\ pcCite = "input"
    /\ IdleIncr
    /\ IdleMatch
    /\ IdleFind
    /\ IdleConv
    /\ IdleReload
    /\ IdlePyref
    /\ IdleDry
    /\ IdleStrategy
    /\ IdleProv
    /\ IdleScholar
    /\ IdleSession

UnchangedByCite ==
    UNCHANGED <<incrVars, matchVars, findVars, conv, reloadVars, pyrefVars, dryVars, strategyVars, provVars, scholarVars, sessionVars>>

\* Converter.citation(b)
Citation ==
    /\ pcCite = "input"
    /\ IF citation_raises(frompdf)
       THEN /\ pcCite' = "citation raised"
            /\ UNCHANGED <<output, label>>
       ELSE /\ pcCite' = "citation"
            /\ output' = citation(frompdf)
            /\ label' = Len(set_variable(citation(frompdf)))
    /\ UNCHANGED <<frompdf, article_list, lineInfo>>
    /\ UnchangedByCite

\* Converter.set_variable(b), on the output of citation
SetVariable ==
    /\ pcCite = "citation"
    /\ article_list' = set_variable(output)
    /\ pcCite' = "set_variable"
    /\ UNCHANGED <<frompdf, output, label, lineInfo>>
    /\ UnchangedByCite

\* convert_citation_text_lines_to_info(text)
ConvertLines ==
    /\ pcCite = "input"
    /\ IF convert_citation_text_lines_raises(frompdf)
       THEN /\ pcCite' = "lines raised"
            /\ UNCHANGED lineInfo
       ELSE /\ pcCite' = "lines"
            /\ lineInfo' = convert_citation_text_lines_to_info(frompdf)
    /\ UNCHANGED <<frompdf, output, label, article_list>>
    /\ UnchangedByCite

NextCite == Citation \/ SetVariable \/ ConvertLines

SpecCite == InitCite /\ [][NextCite]_vars

-----------------------------------------------------------------------------
(* dbmanager: the operations that edit the files, with and without dry_run  *)
(* A year file is the sequence of its Work assignments [varname, name,      *)
(* year, display]; a citation file is its imports (varnames) and its        *)
(* citations <<source, target>>.  A file that does not exist is not in the  *)
(* domain.                                                                  *)

\* a file written whatever dry_run is
save_lines_always(db, kind, filename, lines, dry_run) ==
    IF kind = "work"
    THEN [db EXCEPT !.work = [f \in DOMAIN db.work \cup {filename} |->
                                 IF f = filename THEN lines ELSE db.work[f]]]
    ELSE [db EXCEPT !.cit = [f \in DOMAIN db.cit \cup {filename} |->
                                IF f = filename THEN lines ELSE db.cit[f]]]

\* if not dry_run: save_lines(filename, lines, sep=sep)
save_lines(db, kind, filename, lines, dry_run) ==
    IF dry_run THEN db
    ELSE IF kind = "work"
    THEN [db EXCEPT !.work = [f \in DOMAIN db.work \cup {filename} |->
                                 IF f = filename THEN lines ELSE db.work[f]]]
    ELSE [db EXCEPT !.cit = [f \in DOMAIN db.cit \cup {filename} |->
                                IF f = filename THEN lines ELSE db.cit[f]]]

\* dbindex.discover_year: the year given, else the one in the varname; -1
\* when there is none
discover_year(v, year) == IF year # 0 THEN year ELSE parse_year(v)

\* a < b for str
RECURSIVE str_less(_, _)
str_less(a, b) ==
    IF b = <<>> THEN FALSE
    ELSE IF a = <<>> THEN TRUE
    ELSE IF a[1] # b[1] THEN a[1] < b[1]
    ELSE str_less(Tail(a), Tail(b))

\* max(a, b, key=lambda x: (len(x), x))
letter_max(a, b) ==
    IF Len(b) > Len(a) \/ (Len(b) = Len(a) /\ str_less(a, b)) THEN b ELSE a

\* BodyVisitor "insert": before the first assignment to a greater name, else
\* at the end
insert_stmt(lines, entry) ==
    LET greater == {k \in 1..Len(lines) : str_less(entry.varname, lines[k].varname)}
    IN  IF greater = {} THEN Append(lines, entry)
        ELSE SubSeq(lines, 1, SetMin(greater) - 1) \o <<entry>>
                 \o SubSeq(lines, SetMin(greater), Len(lines))

\* BodyVisitor "delete": the first assignment to varname taken out
delete_stmt(lines, v) ==
    LET at == {k \in 1..Len(lines) : lines[k].varname = v}
    IN  IF at = {} THEN lines
        ELSE SubSeq(lines, 1, SetMin(at) - 1)
                 \o SubSeq(lines, SetMin(at) + 1, Len(lines))

\* EditVisitor: the first assignment to varname edited
edit_stmt(lines, v, field, value) ==
    LET at == {k \in 1..Len(lines) : lines[k].varname = v}
    IN  IF at = {} THEN lines
        ELSE [lines EXCEPT ![SetMin(at)] =
                 IF field = "year" THEN [@ EXCEPT !.year = value]
                 ELSE IF field = "varname" THEN [@ EXCEPT !.varname = value]
                 ELSE [@ EXCEPT !.display = value]]

\* insert_work, lines 535-547: the works of the file that start with varname
\* looked at in turn
RECURSIVE insert_scan(_, _, _, _, _)
insert_scan(lines, v, name, k, letter) ==
    IF k > Len(lines) THEN [end |-> "insert", letter |-> letter]
    ELSE IF ~startswith(lines[k].varname, v)
    THEN insert_scan(lines, v, name, k + 1, letter)
    ELSE IF RatioAbove(compare_str(name, lines[k].name), 9)
    THEN [end |-> "same", letter |-> lines[k].varname]
    ELSE LET splitted == split(lines[k].varname, str_int(lines[k].year))
             suffix == splitted[Len(splitted)]
         IN  IF suffix # <<>>
             THEN insert_scan(lines, v, name, k + 1,
                              letter_max(increment_str(suffix), letter))
             ELSE [end |-> "ValueError", letter |-> letter]

\* insert_work(varname, name, text, year, dry_run=dry_run), text the
\* assignment `entry`
insert_work(db, v, name, entry, year0, dry_run) ==
    LET year == discover_year(v, year0)
        lines == IF year \in DOMAIN db.work THEN db.work[year] ELSE <<>>
        scan == insert_scan(lines, v, name, 1, <<>>)
        newname == v \o scan.letter
    IN  IF scan.end = "same"
        THEN [db |-> db, newname |-> scan.letter, raised |-> "no"]
        ELSE IF scan.end = "ValueError"
        THEN [db |-> db, newname |-> <<>>, raised |-> "ValueError"]
        ELSE [db |-> save_lines(db, "work", year,
                         insert_stmt(lines, [entry EXCEPT !.varname = newname]),
                         dry_run),
              newname |-> newname, raised |-> "no"]

\* CitationVisitor "remove import" and "insert import"
remove_import(c, v) ==
    [c EXCEPT !.imports = SelectSeq(@, LAMBDA i : i # v)]

insert_import(c, v) ==
    [c EXCEPT !.imports = Append(@, v)]

\* citation_operation "rename": varname replaced in the citations
rename_references(c, old, new) ==
    [c EXCEPT !.citations =
        [k \in 1..Len(@) |->
            <<IF @[k][1] = old THEN new ELSE @[k][1],
              IF @[k][2] = old THEN new ELSE @[k][2]>>]]

rename_citation(db, name, original, new, dry_run) ==
    IF name \notin DOMAIN db.cit
    THEN [db |-> db, raised |-> "FileNotFoundError"]
    ELSE [db |-> save_lines(db, "cit", name,
                     rename_references(
                         insert_import(remove_import(db.cit[name], original), new),
                         original, new),
                     dry_run),
          raised |-> "no"]

\* the citation files with a citation of or by the Work
citations_of(db, v) ==
    {c \in DOMAIN db.cit :
        \E k \in 1..Len(db.cit[c].citations) :
            v \in {db.cit[c].citations[k][1], db.cit[c].citations[k][2]}}

\* rename_citation for each of the files, one after the other
RECURSIVE rename_citations(_, _, _, _, _)
rename_citations(db, names, original, new, dry_run) ==
    IF names = {} THEN db
    ELSE LET c == CHOOSE x \in names : TRUE
         IN  rename_citations(rename_citation(db, c, original, new, dry_run).db,
                              names \ {c}, original, new, dry_run)

\* the Work the reloaded database has under this name
loaded_work(db, v) ==
    IF parse_year(v) \notin DOMAIN db.work THEN {}
    ELSE {db.work[parse_year(v)][k] :
            k \in {j \in 1..Len(db.work[parse_year(v)]) :
                      db.work[parse_year(v)][j].varname = v}}

\* rename_lines(filename, lines, sep, original_name, new_name, dry_run)
rename_lines(db, filename, lines, original, new, dry_run) ==
    LET year == discover_year(original, 0)
        parsed == discover_year(new, 0)
        new_year == IF parsed = -1 THEN year ELSE parsed
        works == loaded_work(db, original)
        work_citations == IF works = {} THEN {} ELSE citations_of(db, original)
        dated == IF year # new_year
                 THEN edit_stmt(lines, original, "year", new_year) ELSE lines
        renamed == edit_stmt(dated, original, "varname", new)
        at == {j \in 1..Len(renamed) : renamed[j].varname = new}
        old == IF at = {} THEN {} ELSE {renamed[SetMin(at)]}
        deleted == delete_stmt(renamed, new)
        moved == insert_work(db, new, (CHOOSE w \in works : TRUE).name,
                             CHOOSE e \in old : TRUE, new_year, dry_run)
        after == IF year # new_year THEN moved.db ELSE db
        kept == IF year # new_year \/ old = {} THEN deleted
                ELSE insert_stmt(deleted, CHOOSE e \in old : TRUE)
    IN  IF year # new_year /\ works = {}
        THEN [db |-> db, raised |-> "AttributeError"]
        ELSE IF year # new_year /\ moved.raised # "no"
        THEN [db |-> db, raised |-> moved.raised]
        ELSE [db |-> save_lines(
                         rename_citations(after, work_citations, original, new,
                                          dry_run),
                         "work", filename, kept, dry_run),
              raised |-> "no"]

rename_work(db, original, new, dry_run) ==
    IF discover_year(original, 0) \notin DOMAIN db.work
    THEN [db |-> db, raised |-> "FileNotFoundError"]
    ELSE rename_lines(db, discover_year(original, 0),
                      db.work[discover_year(original, 0)], original, new, dry_run)

set_attribute(db, v, value, dry_run) ==
    IF discover_year(v, 0) \notin DOMAIN db.work
    THEN [db |-> db, raised |-> "FileNotFoundError"]
    ELSE [db |-> save_lines(db, "work", discover_year(v, 0),
                     edit_stmt(db.work[discover_year(v, 0)], v, "display", value),
                     dry_run),
          raised |-> "no"]

NewCitationFile == [imports |-> <<>>, citations |-> <<>>]

Imported(c, v) == \E k \in 1..Len(c.imports) : c.imports[k] = v

\* insert_citation(name, text, dry_run), text the citation source -> target
insert_citation(db, name, source, target, dry_run) ==
    LET c == IF name \in DOMAIN db.cit THEN db.cit[name] ELSE NewCitationFile
        c1 == IF ~Imported(c, source) /\ parse_year(source) # -1
              THEN insert_import(c, source) ELSE c
        c2 == IF ~Imported(c, target) /\ parse_year(target) # -1
              THEN insert_import(c1, target) ELSE c1
    IN  [db |-> save_lines(db, "cit", name,
                     [c2 EXCEPT !.citations = Append(@, <<source, target>>)],
                     dry_run),
         raised |-> "no"]

Cites(c, v) ==
    \E k \in 1..Len(c.citations) : v \in {c.citations[k][1], c.citations[k][2]}

\* the imports of the varnames that no citation is left of
RECURSIVE remove_unused(_, _)
remove_unused(c, names) ==
    IF names = {} THEN c
    ELSE LET v == CHOOSE x \in names : TRUE
         IN  remove_unused(IF Cites(c, v) THEN c ELSE remove_import(c, v),
                           names \ {v})

\* remove_source_citation (side 1) and remove_target_citation (side 2)
remove_citation(db, name, v, side, dry_run) ==
    IF name \notin DOMAIN db.cit
    THEN [db |-> db, raised |-> "FileNotFoundError"]
    ELSE LET c == db.cit[name]
             gone == {k \in 1..Len(c.citations) : c.citations[k][side] = v}
             others == {c.citations[k][3 - side] : k \in gone}
             left == [c EXCEPT !.citations = SelectSeq(@, LAMBDA x : x[side] # v)]
         IN  [db |-> save_lines(db, "cit", name,
                         remove_unused(remove_import(left, v),
                                       {o \in others : parse_year(o) # -1}),
                         dry_run),
              raised |-> "no"]

\* insert(text, citations=name, dry_run), text a Work and a citation of it
insert(db, entry, name, target, dry_run) ==
    LET inserted == insert_work(db, entry.varname, entry.name, entry, 0, dry_run)
    IN  IF inserted.raised # "no" THEN [db |-> db, raised |-> inserted.raised]
        ELSE insert_citation(inserted.db, name, inserted.newname, target, dry_run)

\* the names and the Works the calls are made with
x2014a == x2014 \o <<97>>

x2014b == x2014 \o <<98>>

x2015a == x2015 \o <<97>>

DryNames == {x2014a, x2014b, x2015a}

WorkStmt(v, name, year) ==
    [varname |-> v, name |-> name, year |-> year, display |-> ""]

\* the databases at the start: no file; x2014a and x2015a with the citation
\* of one by the other; a Work x2014 with no letter
DryDatabases ==
    {[work |-> <<>>, cit |-> <<>>],
     [work |-> (2014 :> <<WorkStmt(x2014a, Title, 2014)>>)
                 @@ (2015 :> <<WorkStmt(x2015a, OtherTitle, 2015)>>),
      cit |-> [c \in {"c1"} |->
                 [imports |-> <<x2015a, x2014a>>,
                  citations |-> <<<<x2015a, x2014a>>>>]]],
     [work |-> (2014 :> <<WorkStmt(x2014, Title, 2014)>>), cit |-> <<>>]}

MaxCalls == 2

\* one more call can be made
OneMore == call.n < MaxCalls

InitDry ==
    /\ database \in DryDatabases
    /\ call = [op |-> "none", dry_run |-> FALSE, raised |-> "no", edits |-> FALSE,
               n |-> 0]
    /\ IdleIncr
    /\ IdleMatch
    /\ IdleFind
    /\ IdleConv
    /\ IdleReload
    /\ IdlePyref
    /\ IdleCite
    /\ IdleStrategy
    /\ IdleProv
    /\ IdleScholar
    /\ IdleSession

UnchangedByDry ==
    UNCHANGED <<incrVars, matchVars, findVars, conv, reloadVars, pyrefVars, citeVars, strategyVars, provVars, scholarVars, sessionVars>>

\* one call: `r` what it does with the dry_run given, `w` what it does
\* without dry_run
Called(operation, dry_run, r, w) ==
    /\ database' = r.db
    /\ call' = [op |-> operation, dry_run |-> dry_run, raised |-> r.raised,
                edits |-> w.db # database, n |-> call.n + 1]
    /\ UnchangedByDry

SetAttribute ==
    /\ OneMore
    /\ \E v \in {x2014a, x2015a}, dry_run \in BOOLEAN :
           Called("set_attribute", dry_run,
                  set_attribute(database, v, "now", dry_run),
                  set_attribute(database, v, "now", FALSE))

InsertWork ==
    /\ OneMore
    /\ \E v \in {x2014, x2014a}, name \in {Title, OtherTitle}, dry_run \in BOOLEAN :
           Called("insert_work", dry_run,
                  insert_work(database, v, name, WorkStmt(v, name, 2014), 0, dry_run),
                  insert_work(database, v, name, WorkStmt(v, name, 2014), 0, FALSE))

RenameWork ==
    /\ OneMore
    /\ \E original \in DryNames, new \in DryNames, dry_run \in BOOLEAN :
           /\ original # new
           /\ loaded_work(database, original) # {}
           /\ Called("rename_work", dry_run,
                     rename_work(database, original, new, dry_run),
                     rename_work(database, original, new, FALSE))

InsertCitation ==
    /\ OneMore
    /\ \E source \in {x2014b, x2015a}, target \in {x2014a}, dry_run \in BOOLEAN :
           /\ source # target
           /\ Called("insert_citation", dry_run,
                     insert_citation(database, "c1", source, target, dry_run),
                     insert_citation(database, "c1", source, target, FALSE))

RemoveSourceCitation ==
    /\ OneMore
    /\ \E v \in {x2014a, x2015a}, dry_run \in BOOLEAN :
           Called("remove_source_citation", dry_run,
                  remove_citation(database, "c1", v, 1, dry_run),
                  remove_citation(database, "c1", v, 1, FALSE))

RemoveTargetCitation ==
    /\ OneMore
    /\ \E v \in {x2014a, x2015a}, dry_run \in BOOLEAN :
           Called("remove_target_citation", dry_run,
                  remove_citation(database, "c1", v, 2, dry_run),
                  remove_citation(database, "c1", v, 2, FALSE))

Insert ==
    /\ OneMore
    /\ \E name \in {Title, OtherTitle}, target \in {x2014a}, dry_run \in BOOLEAN :
           Called("insert", dry_run,
                  insert(database, WorkStmt(x2015a, name, 2015), "c1", target, dry_run),
                  insert(database, WorkStmt(x2015a, name, 2015), "c1", target, FALSE))

NextDry ==
    \/ SetAttribute
    \/ InsertWork
    \/ RenameWork
    \/ InsertCitation
    \/ RemoveSourceCitation
    \/ RemoveTargetCitation
    \/ Insert

SpecDry == InitDry /\ [][NextDry]_vars

-----------------------------------------------------------------------------
(* strategies.State and Strategy: forward, backward, _repeat, fbfb, bfbf    *)

StrategyWorks == {"w1", "w2", "w3"}

\* the citations: <<citing work, cited work>>
CitationGraphs == SUBSET {c \in StrategyWorks \X StrategyWorks : c[1] # c[2]}

\* Strategy.__init__: ref[cit.work] and rev_ref[cit.citation]
ref(citations, w) == {c[2] : c \in {x \in citations : x[1] = w}}

rev_ref(citations, w) == {c[1] : c \in {x \in citations : x[2] = w}}

\* State(visited or initial_set, initial_set, filter_function)
InitialState(initial_set) ==
    [visited |-> initial_set, related |-> initial_set,
     derived |-> FALSE, previous_related |-> {}, previous_visited |-> {}]

\* State.derive
derive(state) ==
    [visited |-> state.visited, related |-> state.related,
     derived |-> TRUE, previous_related |-> state.related,
     previous_visited |-> state.visited]

\* a work visited and taken as related whatever the filter says
visit_unfiltered(state, w, accepted) ==
    [state EXCEPT !.visited = @ \cup {w}, !.related = @ \cup {w}]

\* State.visit
visit(state, w, accepted) ==
    [state EXCEPT !.visited = @ \cup {w},
                  !.related = IF w \in accepted THEN @ \cup {w} ELSE @]

\* new_state.visit for each work of a set
RECURSIVE visit_all(_, _, _)
visit_all(state, works, accepted) ==
    IF works = {} THEN state
    ELSE LET w == CHOOSE x \in works : TRUE
         IN  visit_all(visit(state, w, accepted), works \ {w}, accepted)

\* Strategy.backward
backward(s, state) ==
    visit_all(derive(state),
              UNION {ref(s.citations, w) : w \in state.related}, s.accepted)

\* Strategy.forward
forward(s, state) ==
    visit_all(derive(state),
              UNION {rev_ref(s.citations, w) : w \in state.related}, s.accepted)

\* State.delta_related
delta_related(state) ==
    IF state.derived THEN state.related \ state.previous_related
    ELSE state.related

\* fbfb and bfbf: _repeat(order, 2, state)
max_count == 2

\* a count that no new related work sets back
next_count_up(r) == r.count + 1

\* _repeat, line 343: count after the state the last function returned
next_count(r) == IF delta_related(r.state) = {} THEN r.count + 1 ELSE 0

InitStrategy ==
    /\ strategy \in [citations : CitationGraphs, accepted : SUBSET StrategyWorks,
                     initial_set : SUBSET StrategyWorks,
                     order : {<<"forward", "backward">>, <<"backward", "forward">>}]
    /\ repeating = [pc |-> "for", state |-> InitialState(strategy.initial_set),
                    count |-> 0, first |-> 1, func |-> 1]
    /\ IdleIncr
    /\ IdleMatch
    /\ IdleFind
    /\ IdleConv
    /\ IdleReload
    /\ IdlePyref
    /\ IdleCite
    /\ IdleDry
    /\ IdleProv
    /\ IdleScholar
    /\ IdleSession

UnchangedByStrategy ==
    UNCHANGED <<incrVars, matchVars, findVars, conv, reloadVars, pyrefVars, citeVars, dryVars, provVars, scholarVars, sessionVars>>

\* one turn of `for func in order`, func the function `name`
RepeatFunc(name, result) ==
    /\ repeating.pc = "for"
    /\ strategy.order[repeating.func] = name
    /\ next_count(repeating) < max_count + repeating.first
    /\ repeating' = [pc |-> "for", state |-> result,
                     count |-> next_count(repeating), first |-> 0,
                     func |-> (repeating.func % Len(strategy.order)) + 1]
    /\ UNCHANGED strategy
    /\ UnchangedByStrategy

RepeatForward == RepeatFunc("forward", forward(strategy, repeating.state))

RepeatBackward == RepeatFunc("backward", backward(strategy, repeating.state))

\* the turn that ends the loop: return state
RepeatReturn ==
    /\ repeating.pc = "for"
    /\ next_count(repeating) >= max_count + repeating.first
    /\ repeating' = [repeating EXCEPT !.pc = "return",
                                      !.count = next_count(repeating)]
    /\ UNCHANGED strategy
    /\ UnchangedByStrategy

NextStrategy == RepeatForward \/ RepeatBackward \/ RepeatReturn

SpecStrategy == InitStrategy /\ [][NextStrategy]_vars

-----------------------------------------------------------------------------
(* snowballing.snowballing and create_provenance                            *)

\* Step(name, new_references, new_related, total_visited, total_related)
Step(name, new_references, new_related, total_visited, total_related) ==
    [name |-> name, new_references |-> new_references,
     new_related |-> new_related, total_visited |-> total_visited,
     total_related |-> total_related]

\* the accepted works come upon, those of the frontier among them
new_frontier_all(accepted, frontier) == accepted

\* new_frontier -= frontier
new_frontier_of(accepted, frontier) == accepted \ frontier

\* backward(frontier) and forward(frontier) of snowballing: `reached` the
\* works cited by, or citing, the works of the frontier
follow(p, name, reached) ==
    LET visited == p.visited \cup reached
        related == p.related \cup (reached \cap p.accepted)
        new_frontier == new_frontier_of(reached \cap p.accepted, p.frontier)
    IN  [p EXCEPT !.visited = visited,
                  !.related = related,
                  !.new_frontier = new_frontier,
                  !.log = Append(@, Step(name,
                                         Cardinality(visited) - Cardinality(p.visited),
                                         Cardinality(new_frontier),
                                         Cardinality(visited),
                                         Cardinality(related))),
                  !.frontier = @ \cup new_frontier]

\* create_provenance, line 173: count after the last new_frontier
prov_count(p) == IF p.new_frontier = {} THEN p.count + 1 ELSE 0

\* create_provenance up to the loop, snowballing up to its yield
InitProv ==
    /\ \E citations \in CitationGraphs, accepted \in SUBSET StrategyWorks,
          initial_set \in SUBSET StrategyWorks,
          order \in {<<"backward", "forward">>, <<"forward", "backward">>} :
           prov = [pc |-> "for", citations |-> citations, accepted |-> accepted,
                   initial_set |-> initial_set, order |-> order,
                   frontier |-> initial_set, new_frontier |-> initial_set,
                   visited |-> initial_set, related |-> initial_set,
                   log |-> <<Step("start", Cardinality(initial_set),
                                  Cardinality(initial_set),
                                  Cardinality(initial_set),
                                  Cardinality(initial_set))>>,
                   count |-> 0, func |-> 1]
    /\ IdleIncr
    /\ IdleMatch
    /\ IdleFind
    /\ IdleConv
    /\ IdleReload
    /\ IdlePyref
    /\ IdleCite
    /\ IdleDry
    /\ IdleStrategy
    /\ IdleScholar
    /\ IdleSession

UnchangedByProv ==
    UNCHANGED <<incrVars, matchVars, findVars, conv, reloadVars, pyrefVars, citeVars, dryVars, strategyVars, scholarVars, sessionVars>>

\* one turn of `for func in order`, func the function `name`
ProvFunc(name, reached) ==
    /\ prov.pc = "for"
    /\ prov.order[prov.func] = name
    /\ prov_count(prov) < 2
    /\ prov' = [follow(prov, name, reached)
                   EXCEPT !.count = prov_count(prov),
                          !.func = (prov.func % Len(prov.order)) + 1]
    /\ UnchangedByProv

ProvBackward ==
    ProvFunc("backward", UNION {ref(prov.citations, w) : w \in prov.frontier})

ProvForward ==
    ProvFunc("forward", UNION {rev_ref(prov.citations, w) : w \in prov.frontier})

\* the turn that breaks: return frontier, log, visited
ProvReturn ==
    /\ prov.pc = "for"
    /\ prov_count(prov) >= 2
    /\ prov' = [prov EXCEPT !.pc = "return", !.count = prov_count(prov)]
    /\ UnchangedByProv

NextProv == ProvBackward \/ ProvForward \/ ProvReturn

SpecProv == InitProv /\ [][NextProv]_vars

-----------------------------------------------------------------------------
(* snowballing.ScholarUpdate: the worklist and its three buttons            *)

\* the longest worklist
MaxWorklist == 3

\* a worklist: for each work of the list, its scholar_ok attribute
Worklists == UNION {[1..n -> BOOLEAN] : n \in 1..MaxWorklist}

Min2(x, y) == IF x <= y THEN x ELSE y

\* ScholarUpdate.set_index
set_index(u) ==
    [u EXCEPT !.page_number = u.index,
              !.next_disabled = (u.index = Len(u.worklist) - 1),
              !.previous_disabled = (u.index = 0)]

\* ScholarUpdate.reload: index is 0-based, worklist[index] is here
\* worklist[index + 1]; articles is the index of the work the last query
\* was sent for
reload_update(u) ==
    IF u.index >= Len(u.worklist) THEN set_index(u)
    ELSE LET v == [u EXCEPT !.varname = {u.index}]
         IN  IF u.worklist[u.index + 1] /\ ~u.force THEN set_index(v)
             ELSE set_index([v EXCEPT !.articles = {u.index}])

\* ScholarUpdate.next_page, without the reload
next_page(u) ==
    [u EXCEPT !.index = Min2(Len(u.worklist) - 1, u.index + 1)]

\* ScholarUpdate.previous_page, without the reload
previous_page(u) ==
    [u EXCEPT !.query = {Max2(0, u.index - 1)}]

\* ScholarUpdate.__init__ with an index of the worklist
InitScholar ==
    /\ \E worklist \in Worklists, force \in BOOLEAN :
         \E index \in 0..(Len(worklist) - 1) :
           scholar = [reload_update([worklist |-> worklist, force |-> force,
                                     index |-> index, query |-> {},
                                     varname |-> {}, articles |-> {},
                                     page_number |-> -1,
                                     next_disabled |-> FALSE,
                                     previous_disabled |-> FALSE,
                                     clicked |-> "__init__"])
                         EXCEPT !.clicked = "__init__"]
    /\ IdleIncr
    /\ IdleMatch
    /\ IdleFind
    /\ IdleConv
    /\ IdleReload
    /\ IdlePyref
    /\ IdleCite
    /\ IdleDry
    /\ IdleStrategy
    /\ IdleProv
    /\ IdleSession

UnchangedByScholar ==
    UNCHANGED <<incrVars, matchVars, findVars, conv, reloadVars, pyrefVars, citeVars, dryVars, strategyVars, provVars, sessionVars>>

\* a click on "Next Work"
NextPage ==
    /\ scholar.clicked # "idle"
    /\ scholar' = [reload_update(next_page(scholar)) EXCEPT !.clicked = "next_page"]
    /\ UnchangedByScholar

\* a click on "Previous Work"
PreviousPage ==
    /\ scholar.clicked # "idle"
    /\ scholar' = [reload_update(previous_page(scholar))
                      EXCEPT !.clicked = "previous_page"]
    /\ UnchangedByScholar

\* a click on "Reload"
ReloadPage ==
    /\ scholar.clicked # "idle"
    /\ scholar' = [reload_update(scholar) EXCEPT !.clicked = "reload"]
    /\ UnchangedByScholar

NextScholar == NextPage \/ PreviousPage \/ ReloadPage

SpecScholar == InitScholar /\ [][NextScholar]_vars

-----------------------------------------------------------------------------
(* strategies.State and Strategy: the states a Strategy object makes, their *)
(* derivation history, and the strategies called one after the other        *)

SessionWorks == {"w1", "w2"}

SessionGraphs == SUBSET {c \in SessionWorks \X SessionWorks : c[1] # c[2]}

\* the strategy calls made on one Strategy object
MaxStrategyCalls == 2

\* the State objects one Strategy object makes
MaxStates == 20

\* Strategy.__init__: State(visited or initial_set, initial_set, filter_function)
StrategyInitial(visited, initial_set) ==
    [InitialState(initial_set)
        EXCEPT !.visited = IF visited = {} THEN initial_set ELSE visited]

\* a joined state that takes the related works of the second state but not
\* its visited works
union_related(first, second) ==
    [derive(first) EXCEPT !.related = @ \cup second.related,
                          !.previous_related = @ \cup second.related]

\* State.union; previous is [first, second], and delta_related and
\* delta_visited compare with the works of both
union(first, second) ==
    [derive(first) EXCEPT !.visited = @ \cup second.visited,
                          !.related = @ \cup second.related,
                          !.previous_related = @ \cup second.related,
                          !.previous_visited = @ \cup second.visited]

\* a State object: its sets, previous[0] as the places of the states it
\* was derived from, and previous[1]
Object(state, previous, operation) ==
    [state |-> state, previous |-> previous, operation |-> operation]

\* State.log, lines 82-85: the states of current.previous[0] not yet in
\* visited, in order
RECURSIVE unseen(_, _)
unseen(previous, seen) ==
    IF previous = <<>> THEN <<>>
    ELSE IF Head(previous) \in seen THEN unseen(Tail(previous), seen)
    ELSE <<Head(previous)>> \o unseen(Tail(previous), seen \cup {Head(previous)})

\* State.log, the loop: stack.popleft(), result.appendleft(...)
RECURSIVE log_loop(_, _, _, _)
log_loop(heap, stack, result, seen) ==
    IF stack = <<>> THEN result
    ELSE LET current == Head(stack)
             new == unseen(heap[current].previous, seen)
         IN  log_loop(heap, Tail(stack) \o new, <<current>> \o result,
                      seen \cup {new[k] : k \in 1..Len(new)})

\* State.log: the target of each Step of the list
log(heap, place) == log_loop(heap, <<place>>, <<>>, {place})

\* one call of _repeat: its order and its max_count
Stage(order, count) == [order |-> order, max_count |-> count]

\* bb, ff, fbfb, bfbf, bbff, ffbb, s2bbff2u: the _repeat calls they make
stages(name) ==
    CASE name = "bb" -> <<Stage(<<"backward">>, 1)>>
      [] name = "ff" -> <<Stage(<<"forward">>, 1)>>
      [] name = "fbfb" -> <<Stage(<<"forward", "backward">>, max_count)>>
      [] name = "bfbf" -> <<Stage(<<"backward", "forward">>, max_count)>>
      [] name = "bbff" -> <<Stage(<<"backward">>, 1), Stage(<<"forward">>, 1)>>
      [] name = "ffbb" -> <<Stage(<<"forward">>, 1), Stage(<<"backward">>, 1)>>
      [] name = "s2bbff2u" -> <<Stage(<<"forward">>, 1), Stage(<<"backward">>, 1)>>

RepeatStrategies == {"bb", "ff", "fbfb", "bfbf", "bbff", "ffbb", "s2bbff2u"}

\* Strategy(initial_set, filter_function, visited)
InitSession ==
    /\ \E citations \in SessionGraphs, accepted \in SUBSET SessionWorks,
          initial_set \in SUBSET SessionWorks, visited \in SUBSET SessionWorks :
         /\ running = [pc |-> "ready", citations |-> citations,
                       accepted |-> accepted, initial_set |-> initial_set,
                       visited |-> visited, name |-> "__init__", start |-> 0,
                       order |-> <<>>, todo |-> <<>>, limit |-> 0, state |-> 0,
                       count |-> 0, first |-> 0, func |-> 0, fstate |-> 0,
                       returned |-> 0, calls |-> 0]
         /\ states = <<Object(StrategyInitial(visited, initial_set), <<>>, "start")>>
    /\ IdleIncr
    /\ IdleMatch
    /\ IdleFind
    /\ IdleConv
    /\ IdleReload
    /\ IdlePyref
    /\ IdleCite
    /\ IdleDry
    /\ IdleStrategy
    /\ IdleProv
    /\ IdleScholar

UnchangedBySession ==
    UNCHANGED <<incrVars, matchVars, findVars, conv, reloadVars, pyrefVars, citeVars, dryVars, strategyVars, provVars, scholarVars>>

\* a call may be made
Callable == running.pc = "ready" /\ running.calls < MaxStrategyCalls

\* the states the caller holds: self.initial and the state last returned
Held == {1} \cup ({running.returned} \ {0})

\* the place of the State object made next
NewPlace == Len(states) + 1

\* the call `name` on the state at `place` has returned the state at `result`
Return(name, place, result) ==
    [running EXCEPT !.pc = "ready", !.name = name, !.start = place,
                    !.order = <<>>, !.todo = <<>>, !.limit = 0, !.state = 0,
                    !.count = 0, !.first = 0, !.func = 0, !.fstate = 0,
                    !.returned = result]

\* strategy.forward(state)
CallForward ==
    /\ Callable
    /\ \E place \in Held :
         /\ states' = Append(states, Object(forward(running, states[place].state),
                                            <<place>>, "forward"))
         /\ running' = [Return("forward", place, NewPlace) EXCEPT !.calls = @ + 1]
    /\ UnchangedBySession

\* strategy.backward(state)
CallBackward ==
    /\ Callable
    /\ \E place \in Held :
         /\ states' = Append(states, Object(backward(running, states[place].state),
                                            <<place>>, "backward"))
         /\ running' = [Return("backward", place, NewPlace) EXCEPT !.calls = @ + 1]
    /\ UnchangedBySession

\* State.union(first, second)
CallUnion ==
    /\ Callable
    /\ \E first \in Held, second \in Held :
         /\ states' = Append(states, Object(union(states[first].state,
                                                  states[second].state),
                                            <<first, second>>, "union"))
         /\ running' = [Return("union", first, NewPlace) EXCEPT !.calls = @ + 1]
    /\ UnchangedBySession

\* bb, ff, fbfb, bfbf, bbff, ffbb, s2bbff2u, up to the loop of the first
\* _repeat
CallRepeat ==
    /\ Callable
    /\ \E name \in RepeatStrategies, place \in Held :
         running' = [running EXCEPT !.pc = "_repeat", !.name = name,
                                    !.start = place,
                                    !.order = stages(name)[1].order,
                                    !.limit = stages(name)[1].max_count,
                                    !.todo = Tail(stages(name)),
                                    !.state = place, !.count = 0, !.first = 1,
                                    !.func = 1, !.fstate = 0,
                                    !.calls = @ + 1]
    /\ UNCHANGED states
    /\ UnchangedBySession

\* _repeat, line 343: count after the state the last function returned
turn_count == next_count([state |-> states[running.state].state,
                          count |-> running.count])

\* _repeat: one turn of `for func in order`, func the function `name`
Turn(name, result) ==
    /\ running.pc = "_repeat"
    /\ running.order[running.func] = name
    /\ turn_count < running.limit + running.first
    /\ Len(states) < MaxStates
    /\ states' = Append(states, Object(result, <<running.state>>, name))
    /\ running' = [running EXCEPT !.state = NewPlace, !.count = turn_count,
                                  !.first = 0,
                                  !.func = (@ % Len(running.order)) + 1]
    /\ UnchangedBySession

TurnForward == Turn("forward", forward(running, states[running.state].state))

TurnBackward == Turn("backward", backward(running, states[running.state].state))

\* _repeat breaks and returns, and the strategy calls the next _repeat:
\* bbff and ffbb on the state returned, s2bbff2u on its own argument
TurnNext ==
    /\ running.pc = "_repeat"
    /\ turn_count >= running.limit + running.first
    /\ running.todo # <<>>
    /\ running' = [running EXCEPT !.order = running.todo[1].order,
                                  !.limit = running.todo[1].max_count,
                                  !.todo = Tail(@),
                                  !.state = IF running.name = "s2bbff2u"
                                            THEN running.start ELSE @,
                                  !.fstate = running.state,
                                  !.count = 0, !.first = 1, !.func = 1]
    /\ UNCHANGED states
    /\ UnchangedBySession

\* the last _repeat breaks and returns, and so does the strategy
TurnReturn ==
    /\ running.pc = "_repeat"
    /\ turn_count >= running.limit + running.first
    /\ running.todo = <<>>
    /\ running.name # "s2bbff2u"
    /\ running' = Return(running.name, running.start, running.state)
    /\ UNCHANGED states
    /\ UnchangedBySession

\* s2bbff2u: bb has returned, return State.union(fstate, bstate)
TurnUnion ==
    /\ running.pc = "_repeat"
    /\ turn_count >= running.limit + running.first
    /\ running.todo = <<>>
    /\ running.name = "s2bbff2u"
    /\ Len(states) < MaxStates
    /\ states' = Append(states, Object(union(states[running.fstate].state,
                                             states[running.state].state),
                                       <<running.fstate, running.state>>, "union"))
    /\ running' = Return(running.name, running.start, NewPlace)
    /\ UnchangedBySession

\* sbfu, up to its loop
CallSbfu ==
    /\ Callable
    /\ \E place \in Held :
         running' = [running EXCEPT !.pc = "sbfu", !.name = "sbfu",
                                    !.start = place, !.state = place,
                                    !.calls = @ + 1]
    /\ UNCHANGED states
    /\ UnchangedBySession

\* sbfu: fstate, bstate and their union, of one turn of `while True`
sbfu_fstate == forward(running, states[running.state].state)

sbfu_bstate == backward(running, states[running.state].state)

sbfu_states ==
    <<Object(sbfu_fstate, <<running.state>>, "forward"),
      Object(sbfu_bstate, <<running.state>>, "backward"),
      Object(union(sbfu_fstate, sbfu_bstate), <<NewPlace, NewPlace + 1>>, "union")>>

\* a loop that never returns
sbfu_goes_on == FALSE

\* sbfu, line 516
sbfu_returns == delta_related(sbfu_fstate) = {} /\ delta_related(sbfu_bstate) = {}

\* sbfu: a turn of the loop that does not return
SbfuTurn ==
    /\ running.pc = "sbfu"
    /\ ~sbfu_returns
    /\ Len(states) + 3 <= MaxStates
    /\ states' = states \o sbfu_states
    /\ running' = [running EXCEPT !.state = NewPlace + 2]
    /\ UnchangedBySession

\* sbfu: the turn that returns
SbfuReturn ==
    /\ running.pc = "sbfu"
    /\ sbfu_returns
    /\ Len(states) + 3 <= MaxStates
    /\ states' = states \o sbfu_states
    /\ running' = Return("sbfu", running.start, NewPlace + 2)
    /\ UnchangedBySession

NextSession ==
    \/ CallForward
    \/ CallBackward
    \/ CallUnion
    \/ CallRepeat
    \/ TurnForward
    \/ TurnBackward
    \/ TurnNext
    \/ TurnReturn
    \/ TurnUnion
    \/ CallSbfu
    \/ SbfuTurn
    \/ SbfuReturn

SpecSession == InitSession /\ [][NextSession]_vars

-----------------------------------------------------------------------------
(* the strategies and create_provenance, each loop going on while it can    *)

\* a Strategy object and its calls, or one call of create_provenance
InitTerminates == InitSession \/ InitProv

NextTerminates == NextSession \/ NextProv

SpecTerminates ==
    InitTerminates /\ [][NextTerminates]_vars /\ WF_vars(NextTerminates)

-----------------------------------------------------------------------------
(* Strategy(S).bfbf() or fbfb(), then create_provenance(S) in the same      *)
(* order, on the same database and with the same filter                     *)

\* Strategy(initial_set, filter_function), then bfbf() or fbfb() up to the
\* loop of _repeat; create_provenance(initial_set, filter_function,
\* backward_first) up to its loop
InitBoth ==
    /\ \E citations \in CitationGraphs, accepted \in SUBSET StrategyWorks,
          initial_set \in SUBSET StrategyWorks,
          order \in {<<"backward", "forward">>, <<"forward", "backward">>} :
         /\ strategy = [citations |-> citations, accepted |-> accepted,
                        initial_set |-> initial_set, order |-> order]
         /\ repeating = [pc |-> "for", state |-> InitialState(initial_set),
                         count |-> 0, first |-> 1, func |-> 1]
         /\ prov = [pc |-> "for", citations |-> citations, accepted |-> accepted,
                    initial_set |-> initial_set, order |-> order,
                    frontier |-> initial_set, new_frontier |-> initial_set,
                    visited |-> initial_set, related |-> initial_set,
                    log |-> <<Step("start", Cardinality(initial_set),
                                   Cardinality(initial_set),
                                   Cardinality(initial_set),
                                   Cardinality(initial_set))>>,
                    count |-> 0, func |-> 1]
    /\ IdleIncr
    /\ IdleMatch
    /\ IdleFind
    /\ IdleConv
    /\ IdleReload
    /\ IdlePyref
    /\ IdleCite
    /\ IdleDry
    /\ IdleScholar
    /\ IdleSession

\* a step of the strategy
BothStrategy == NextStrategy

\* a step of create_provenance, called when the strategy has returned
BothProvenance == repeating.pc = "return" /\ NextProv

NextBoth == BothStrategy \/ BothProvenance

SpecBoth == InitBoth /\ [][NextBoth]_vars

-----------------------------------------------------------------------------
(* C1 - C4: the matching rules, for info_work_match and for              *)
(* compare_paper_to_work, on the record `info` and the candidate `work`. *)

\* one of the two functions has returned (not raised)
MatchDecided ==
    \/ pcMatch = "info_work_match"
    \/ pcMatch = "compare_paper_to_work" /\ compared.raised = "no"

\* ... and it reported a match
MatchFound ==
    \/ pcMatch = "info_work_match" /\ matched
    \/ pcMatch = "compare_paper_to_work" /\ compared.raised = "no"
         /\ compared.work # None

ClusterEq ==
    info.cluster_id # NoAttr /\ work.cluster_id # NoAttr
        /\ info.cluster_id = work.cluster_id

ScholarEq ==
    info.scholar_id # NoAttr /\ work.scholar_id # NoAttr
        /\ info.scholar_id = work.scholar_id

\* the record equals an alias the Work declares: year, title, and the
\* authors of the alias or of the Work
AliasEq ==
    \E k \in 1..Len(AliasList(work)) :
        LET alias == AliasList(work)[k]
        IN  /\ alias[1] = info.year
            /\ alias[2] = info.name
            /\ \/ Len(alias) > 2 /\ alias[3] = info.authors
               \/ work.authors = info.authors

NoExactRule == ~ClusterEq /\ ~ScholarEq /\ ~AliasEq

\* the record's place is the candidate's place
SamePlace ==
    /\ info.place # NoAttr
    /\ work.place # NoAttr
    /\ info.place \in PlaceVars
    /\ PlaceName[info.place] = PlaceName[work.place]

TitleRatio == compare_str(work.name, info.name)

\* the threshold as the claim has it, in tenths: 0.9, 0.8 for year 0,
\* less 0.1 for the same place
ClaimedRequired ==
    (IF info.year = 0 THEN 8 ELSE 9) - (IF SamePlace THEN 1 ELSE 0)

\* the threshold of the code: 0.9, 1.0 for year 0, less 0.1 for the same place
RaisedRequired ==
    (IF info.year = 0 THEN 10 ELSE 9) - (IF SamePlace THEN 1 ELSE 0)

\* C1 as claimed: with no exact rule, a similarity above the claimed
\* threshold (0.9; 0.8 for an unknown year; 0.1 less for the same place)
\* matches, and a match has a similarity of at least that threshold.
C1_ThresholdRelaxedForYear0 ==
    MatchDecided /\ NoExactRule =>
        /\ (RatioAbove(TitleRatio, ClaimedRequired) => MatchFound)
        /\ (MatchFound => \/ RatioAbove(TitleRatio, ClaimedRequired)
                          \/ RatioIs(TitleRatio, ClaimedRequired))

\* C1 amended: with no exact rule, the similarity required is 0.9; it is
\* RAISED to 1.0 when the record's year is unknown (0), and it is reduced by
\* 0.1 when the record's place is the candidate's place: a similarity above
\* it matches, and a match has a similarity of at least it.
C1_ThresholdRaisedForYear0 ==
    MatchDecided /\ NoExactRule =>
        /\ (RatioAbove(TitleRatio, RaisedRequired) => MatchFound)
        /\ (MatchFound => \/ RatioAbove(TitleRatio, RaisedRequired)
                          \/ RatioIs(TitleRatio, RaisedRequired))

\* a record of unknown year at the candidate's place, title similarity
\* 0.95: it matches (over 1.0 - 0.1)
C1_Witness ==
    /\ pcMatch = "info_work_match"
    /\ NoExactRule
    /\ info.year = 0
    /\ SamePlace
    /\ info.name = Title95
    /\ matched

\* C2: with no exact rule, a title similarity exactly equal to the required
\* threshold is a match, whatever the year and the place.
C2_RatioAtThresholdMatches ==
    MatchDecided /\ NoExactRule /\ RatioIs(TitleRatio, RaisedRequired)
        => MatchFound

\* C3: equal cluster ids, or equal scholar ids, match whatever the titles,
\* years, authors and places; an identifier absent on either side is never
\* equal (when nothing else matches either, there is no match).
C3_IdentifierEqualityMatches ==
    /\ (MatchDecided /\ (ClusterEq \/ ScholarEq) => MatchFound)
    /\ (MatchDecided /\ NoExactRule /\ ~RatioAbove(TitleRatio, RaisedRequired)
           => ~MatchFound)

-----------------------------------------------------------------------------
(* C5 - C7, C9, C10: find_work_by_info on a loaded database *)

\* the Works among the items of one module of the cache (0 is no module)
WorksIn(cache, module) ==
    IF module \notin DOMAIN cache THEN {}
    ELSE {cache[module][k][2] : k \in 1..Len(cache[module])}

\* C5, as stated: a Work of the database, converted to a BibTeX entry and
\* passed back through bibtex_to_info and find_work_by_info (the entry
\* itself, or its text through match_bibtex_to_work), is the Work returned.
C5_RoundTripReturnsWork ==
    op \in {"entry", "bibtex"} => (raised = "no" /\ found = given.work)

\* C6: when find_work_by_info returned a Work, the call made again on the
\* record as that call left it returns the same Work, raises nothing and
\* leaves the record's pyref as it was.
C6_SecondCallReturnsSameWork ==
    [][(op' = "again" /\ found # 0)
         => (/\ found' = found
             /\ raised' = "no"
             /\ paperOut'.pyref = paperOut.pyref)]_vars

\* a second call was made after a first one that matched and set the pyref
C6_Witness ==
    /\ op = "again"
    /\ found # 0
    /\ paperOut.pyref # given.paper.pyref

\* C7, as stated: after a call that finds no match, the pyref is the prefix
\* it had followed by a suffix of lowercase letters, it is the identifier of
\* none of the Works scanned, and the display ends with that suffix when the
\* display was touched at all.
C7_NextFreeSuffix ==
    (op = "find" /\ found = 0 /\ raised = "no"
       /\ given.paper.work_type # "Site")
    => /\ Stem(paperOut.pyref) = Stem(given.paper.pyref)
       /\ SuffixOf(paperOut.pyref) # <<>>
       /\ \A y \in DOMAIN WORK_CACHE : \A k \in 1..Len(WORK_CACHE[y]) :
              (given.paper.year \in {0, y}
                 /\ startswith(WORK_CACHE[y][k][1], Stem(given.paper.pyref)))
              => WORK_CACHE[y][k][1] # paperOut.pyref
       /\ paperOut.display \in
              {given.paper.display,
               given.paper.display \o <<32>> \o SuffixOf(paperOut.pyref)}

\* C9, as stated: a call of find_work_by_info raises nothing.
C9_NeverRaises ==
    op \in {"find", "again"} => raised = "no"

\* C10, as stated: for a record of a year other than 0 the Work returned is
\* among the items of that year's file, or is the Work its ID names.
C10_OnlyYearBucket ==
    (op = "find" /\ found # 0 /\ given.paper.year # 0)
    => \/ found \in WorksIn(WORK_CACHE, given.paper.year)
       \/ (given.paper.ID # NoAttr
             /\ found = work_by_varname(WORK_CACHE, given.paper.ID))

\* a Work of some module matches the record, by compare_paper_to_work
SomeWorkMatches(cache, p) ==
    \E y \in DOMAIN cache : \E k \in 1..Len(cache[y]) :
        compare_paper_to_work(96, cache[y][k][1], WorkPool[cache[y][k][2]],
                              entrytype_place(p)).work # None

\* C10: for a record of a year Y other than 0 the Work returned is among the
\* items of the file of Y or, when no file of Y is loaded, among those of
\* y9999.py, or it is the Work the record's ID names; for a record of year 0
\* a call that raises nothing returns None only if no Work of any file
\* matches.
C10_YearBucketOrFallback ==
    /\ (op = "find" /\ found # 0 /\ given.paper.year # 0)
       => \/ found \in WorksIn(WORK_CACHE,
                               ModuleOf(WORK_CACHE, given.paper.year))
          \/ (given.paper.ID # NoAttr
                /\ found = work_by_varname(WORK_CACHE, given.paper.ID))
    /\ (op = "find" /\ found = 0 /\ raised = "no" /\ given.paper.year = 0
          /\ given.paper.work_type # "Site")
       => ~SomeWorkMatches(WORK_CACHE, given.paper)

\* a record of a year with no file got a Work of y9999.py, not through its ID
C10_Witness ==
    /\ op = "find"
    /\ found # 0
    /\ given.paper.year # 0
    /\ given.paper.year \notin DOMAIN WORK_CACHE
    /\ given.paper.ID = NoAttr
    /\ found \in WorksIn(WORK_CACHE, 9999)

-----------------------------------------------------------------------------
(* C11 - C13: one call of ConvertDict.run / ConvertWork.run *)

\* the attributes run goes through: all keys of a dict; of a Work those in
\* <use> that <ignore> does not name
Visited == {k \in Keys(conv.original) :
                \E i \in 1..Len(attrs(conv.kind, conv.rules, conv.original)) :
                    attrs(conv.kind, conv.rules, conv.original)[i] = k}

\* visited attributes that have no rule of their own
Untouched == {k \in Visited : k \notin DOMAIN conv.rules.fields}

WritesTo(key) == {i \in 1..Len(conv.written) : conv.written[i][2] = key}

LastWrite(key) == conv.written[SetMax(WritesTo(key))]

\* what the copy writes for a source value
CopyValue(v) == IF conv.kind = "dict" THEN v ELSE str_value(v)

LiteralTargets(k) ==
    {conv.rules.fields[k][i].to.a :
        i \in {j \in 1..Len(conv.rules.fields[k]) :
                  /\ conv.rules.fields[k][j].form = "key"
                  /\ conv.rules.fields[k][j].to.e = "str"}}

\* the call without the rule of attribute k
WithoutRule(c, k) ==
    [c EXCEPT !.rules.fields =
        [x \in DOMAIN c.rules.fields \ {k} |-> c.rules.fields[x]]]

\* the call from its entry
AtEntry(c) ==
    [c EXCEPT !.pc = "before", !.new = <<>>, !.written = <<>>,
              !.current = new_current(c.kind, c.original),
              !.returns_new = TRUE, !.value = ""]

\* C12, as stated: when run returns, for a present attribute with a rule
\* every literal target key has the attribute's value in the output and the
\* attribute's own key is not in the output; the rule of an absent attribute
\* changes nothing.
C12_RuleRenames ==
    conv.pc = "done" =>
        /\ \A k \in Keys(conv.original) \cap DOMAIN conv.rules.fields :
               /\ \A t \in LiteralTargets(k) :
                      Has(conv.new, t)
                        /\ Get(conv.new, t) = Get(conv.original, k)
               /\ ~Has(conv.new, k)
        /\ \A k \in DOMAIN conv.rules.fields \ Keys(conv.original) :
               run(AtEntry(WithoutRule(conv, k))).new = conv.new

\* C12: when run returns, for an attribute run goes through (present, and
\* for a Work in <use> and not in <ignore>) that has a rule, every literal
\* target key was assigned the attribute's value by the rule, and the output
\* has that value unless a later command assigned the key again; the copy
\* did not write the attribute's own key; the rule of an absent attribute
\* changes nothing.
C12_RuleRenamesUnlessOverwritten ==
    conv.pc = "done" =>
        /\ \A k \in Visited \cap DOMAIN conv.rules.fields :
               /\ \A t \in LiteralTargets(k) :
                      /\ \E i \in WritesTo(t) :
                             conv.written[i] =
                                 <<"fields", t, k, Get(conv.original, k)>>
                      /\ (LastWrite(t)[1] = "fields" /\ LastWrite(t)[3] = k)
                            => Get(conv.new, t) = Get(conv.original, k)
               /\ \A i \in WritesTo(k) : conv.written[i][1] # "copy"
        /\ \A k \in DOMAIN conv.rules.fields \ Keys(conv.original) :
               run(AtEntry(WithoutRule(conv, k))).new = conv.new

\* a and b are both renamed to x, b after a: x has the value of b, y that
\* of a, and neither a nor b is in the output
C12_Witness ==
    /\ conv.pc = "done"
    /\ conv.kind = "dict"
    /\ conv.original = << <<"a", "A">>, <<"b", "B">> >>
    /\ {"a", "b"} \subseteq DOMAIN conv.rules.fields
    /\ LiteralTargets("a") = {"x", "y"}
    /\ conv.rules.after = <<>> /\ ~conv.has_article
    /\ Get(conv.new, "x") = "B"
    /\ Get(conv.new, "y") = "A"
    /\ ~Has(conv.new, "a") /\ ~Has(conv.new, "b")

StageOrder ==
    <<"before", "fields", "middle", "copy", "article", "after", "result",
      "done">>

StageRank(stage) == CHOOSE i \in 1..Len(StageOrder) : StageOrder[i] = stage

\* the assignments to the output are made in the order of the stages, every
\* key of the output has the value of the last assignment to it, and
\* <result> is evaluated on the output as <after> left it
LaterStageWins ==
    conv.pc # "idle" =>
        /\ \A i, j \in 1..Len(conv.written) :
               i < j => StageRank(conv.written[i][1])
                          <= StageRank(conv.written[j][1])
        /\ \A i \in 1..Len(conv.written) :
               StageRank(conv.written[i][1]) < StageRank(conv.pc)
        /\ \A key \in Keys(conv.new) :
               WritesTo(key) # {} /\ Get(conv.new, key) = LastWrite(key)[4]
        /\ \A i \in 1..Len(conv.written) : Has(conv.new, conv.written[i][2])
        /\ (conv.pc = "done" /\ ~conv.returns_new)
              => conv.value = process_element(conv.rules.result, conv.new,
                                              conv.original, conv.current)

\* C13: every step of run leaves its stage for the next one of <before>,
\* per-field rules, <middle>, copy, <article>, <after>, <result>; the
\* assignments to the output follow that order and the value of a key is the
\* one the last assignment gave it; <result> is evaluated last, on the
\* finished output.
C13_StagesInOrderLaterWins ==
    /\ []LaterStageWins
    /\ [][conv.pc # "idle" =>
             StageRank(conv'.pc) = StageRank(conv.pc) + 1]_vars

\* x was assigned by <before>, by the rule of a and by <after>: it has the
\* value <after> gave it, and <result> returned that value
C13_Witness ==
    /\ conv.pc = "done"
    /\ {conv.written[i][1] : i \in WritesTo("x")} = {"before", "fields", "after"}
    /\ Get(conv.original, "c") = "C"
    /\ Get(conv.new, "x") = "C"
    /\ ~conv.returns_new /\ conv.value = "C"

-----------------------------------------------------------------------------
(* C8 *)

\* position of a suffix in the sequence "", a, b, ..., z, aa, ab, ...
RECURSIVE SuffixRank(_)
SuffixRank(s) ==
    IF s = <<>> THEN 0
    ELSE 26 * SuffixRank(DropLast(s)) + (s[Len(s)] - 96)

\* C8: increment_str keeps the part before the suffix and moves the suffix
\* to the next one of the sequence a, b, ..., z, aa, ab, ..., az, ba, ...:
\* no suffix becomes a, a final letter other than z becomes its successor,
\* a final z becomes a with a carry into the letter before it.
C8_IncrementIsSuccessor ==
    pcIncr = "done" =>
        /\ Stem(new_s) = Stem(varname)
        /\ SuffixRank(SuffixOf(new_s)) = SuffixRank(SuffixOf(varname)) + 1
        /\ (SuffixOf(varname) = <<>> => new_s = varname \o <<97>>)
        /\ (SuffixOf(varname) # <<>> /\ varname[Len(varname)] # 122
               => new_s = DropLast(varname) \o <<varname[Len(varname)] + 1>>)
        /\ (SuffixOf(varname) # <<>> /\ varname[Len(varname)] = 122
               => new_s[Len(new_s)] = 97 /\ Len(new_s) >= Len(varname))

\* x2014az -> x2014ba: a roll-over with a carry into a letter
C8_Witness ==
    /\ pcIncr = "done"
    /\ varname = x2014 \o <<97, 122>>
    /\ new_s = x2014 \o <<98, 97>>

-----------------------------------------------------------------------------
(* C14, C15 *)

\* what load_work_map and work_by_varname can reach: <<module, varname,
\* object>>
Reachable ==
    UNION {{<<y, modules[y][k][1], modules[y][k][2]>> : k \in 1..Len(modules[y])} :
              y \in DOMAIN modules}

\* what the files define: each Work in the module of its file, and in the
\* module of each of its aliases
DefinedEntries ==
    {<<WorkPool[e[1]].file, WorkPool[e[1]].key, NewObject(e)>> : e \in disk}
    \cup
    UNION {{<<ModuleOf(modules, ObjectAliases(NewObject(e))[k][1]),
              WorkPool[e[1]].key, NewObject(e)>> :
               k \in 1..Len(ObjectAliases(NewObject(e)))} : e \in disk}

\* the objects work_by_varname(key) can give: the one under `key` in the
\* module of the year in `key`, none when it gives None
ByVarname(key) == {r[3] : r \in {x \in Reachable : x[1] = parse_year(key) /\ x[2] = key}}

ItemsOf(items) == {items[k] : k \in 1..Len(items)}

\* C14: after every reload(), the Works reachable through work_by_varname,
\* load_work_map and the registry are exactly the Works the files define now,
\* plus their alias entries.
C14_ReachableAreDefined ==
    reloaded = "ok" =>
        /\ Reachable = DefinedEntries
        /\ registry = {r[3] : r \in Reachable}
        /\ \A e \in EditedWorks :
               ByVarname(WorkPool[e].key) # {} => e \in DefinedWorks(disk)

-----------------------------------------------------------------------------
(* C16 *)

\* a Work of the database has this identifier
NamesWork(key) == \E y \in DOMAIN pyrefCache : HasKey(pyrefCache[y], key)

\* C16: set_pyref and info_to_pyref give display+year+letter, where letter is
\* the first of a..z for which no Work with that identifier exists in the
\* database; the identifier given never names an existing Work.
C16_PyrefIsFirstFree ==
    pcPyref \in {"set_pyref", "info_to_pyref"} =>
        /\ Len(newPyref) = Len(x2014) + 1
        /\ SubSeq(newPyref, 1, Len(x2014)) = x2014
        /\ newPyref[Len(newPyref)] \in ascii_lowercase
        /\ \A l \in ascii_lowercase :
               l < newPyref[Len(newPyref)] => NamesWork(x2014 \o <<l>>)
        /\ ~NamesWork(newPyref)

-----------------------------------------------------------------------------
(* C17 *)

\* the lines of the k-th block of the text given
BlockLines(k) == split(strip(citation_elements(frompdf)[k]), <<10>>)

Blocks == 1..Len(citation_elements(frompdf))

\* the blocks that fit none of the layouts
Unfit == {k \in Blocks : layout_of(BlockLines(k)) = ""}

\* C17: a block that fits none of the layouts (reference, site, work) is
\* converted to "Incomplete" without raising, every other block of the batch
\* is still converted, and no "Incomplete" entry reaches the exported list.
C17_UnfitIsIncompleteOthersConverted ==
    /\ pcCite \in {"citation raised", "citation", "set_variable"} /\ Unfit # {}
           => /\ pcCite # "citation raised"
              /\ Len(output) = Len(citation_elements(frompdf))
              /\ \A k \in Blocks : (output[k] = Incomplete) <=> k \in Unfit
              /\ label = Cardinality(Blocks \ Unfit)
    /\ pcCite = "set_variable" /\ Unfit # {}
           => /\ \A k \in 1..Len(article_list) : article_list[k] # Incomplete
              /\ Len(article_list) = Cardinality(Blocks \ Unfit)
    /\ pcCite \in {"lines", "lines raised"} /\ layout_of(BlockLines(1)) = ""
          /\ Len(citation_elements(frompdf)) = 1
           => pcCite = "lines" /\ lineInfo = Incomplete

-----------------------------------------------------------------------------
(* C18 *)

\* C18: with dry_run=True, insert, insert_work, insert_citation,
\* set_attribute, rename_work and the citation-removal operations write no
\* file: every year file and citation file has the same content after the
\* call as before it.
C18_DryRunWritesNothing ==
    [][call'.dry_run => database' = database]_vars

\* a dry run of rename_work that moves a cited Work to another year: three
\* files would have been written
C18_Witness ==
    /\ call.op = "rename_work"
    /\ call.dry_run
    /\ call.raised = "no"
    /\ call.edits

-----------------------------------------------------------------------------
(* C19 *)

\* the works that cite or are cited by a work of the set
Neighbours(works) ==
    UNION {ref(strategy.citations, w) \cup rev_ref(strategy.citations, w) :
              w \in works}

\* the closure of the initial set under citations in both directions through
\* accepted works: the least set with the initial set in it that has every
\* accepted neighbour of its works
ClosureOfInitial ==
    LET closed == {X \in SUBSET StrategyWorks :
                      /\ strategy.initial_set \subseteq X
                      /\ Neighbours(X) \cap strategy.accepted \subseteq X}
    IN  {w \in StrategyWorks : \A X \in closed : w \in X}

\* C19: the state fbfb() and bfbf() return has as related set the closure of
\* the initial set S under citations followed in both directions through
\* works the filter accepts, and as visited set S plus every work that cites
\* or is cited by a related work.
C19_ReturnsClosure ==
    repeating.pc = "return" =>
        /\ repeating.state.related = ClosureOfInitial
        /\ repeating.state.visited =
               strategy.initial_set \cup Neighbours(repeating.state.related)

\* w1 alone at the start, w2 and w3 reached one after the other, one by a
\* citation of it and one by a citation it makes
C19_Witness ==
    /\ repeating.pc = "return"
    /\ strategy.initial_set = {"w1"}
    /\ strategy.citations = {<<"w2", "w1">>, <<"w2", "w3">>}
    /\ repeating.state.related = StrategyWorks

-----------------------------------------------------------------------------
(* C20 *)

\* C20: in the log create_provenance returns, the first step is 'start' with
\* all counts equal to the size of the initial set; for each later step
\* total_visited is the total_visited of the step before plus its
\* new_references and total_related the total_related of the step before plus
\* its new_related; the totals of the last step are the sizes of the visited
\* set and of the frontier returned.  The log is such from its first step on,
\* so at the return too.
C20_LogAddsUp ==
    prov.pc \in {"for", "return"} =>
        /\ prov.log[1] = Step("start", Cardinality(prov.initial_set),
                              Cardinality(prov.initial_set),
                              Cardinality(prov.initial_set),
                              Cardinality(prov.initial_set))
        /\ \A k \in 2..Len(prov.log) :
               /\ prov.log[k].name \in {"backward", "forward"}
               /\ prov.log[k].total_visited =
                      prov.log[k - 1].total_visited + prov.log[k].new_references
               /\ prov.log[k].total_related =
                      prov.log[k - 1].total_related + prov.log[k].new_related
        /\ prov.log[Len(prov.log)].total_visited = Cardinality(prov.visited)
        /\ prov.log[Len(prov.log)].total_related = Cardinality(prov.frontier)

\* a log with a step that found a related work and a later step that came
\* upon works of the frontier again
C20_Witness ==
    /\ prov.pc = "return"
    /\ Len(prov.log) >= 5
    /\ \E k \in 2..Len(prov.log) :
           prov.log[k].new_related > 0
               /\ prov.log[k].new_references > prov.log[k].new_related
    /\ Cardinality(prov.visited) > Cardinality(prov.frontier)

-----------------------------------------------------------------------------
(* C21: the buttons of ScholarUpdate                                        *)

\* C21: a click on 'next' moves the index one work forward and a click on
\* 'previous' one work back, the index stays within 0..len(worklist)-1, the
\* previous button is disabled exactly at index 0 and the next button
\* exactly at the last index.
C21_ButtonsMoveIndex ==
    [][/\ scholar'.clicked = "next_page"
            => scholar'.index = Min2(Len(scholar.worklist) - 1, scholar.index + 1)
       /\ scholar'.clicked = "previous_page"
            => scholar'.index = Max2(0, scholar.index - 1)
       /\ scholar'.index \in 0..(Len(scholar.worklist) - 1)
       /\ scholar'.previous_disabled <=> scholar'.index = 0
       /\ scholar'.next_disabled <=> scholar'.index = Len(scholar.worklist) - 1]_vars

-----------------------------------------------------------------------------
(* C22 - C25: the states of a Strategy object                               *)

\* the call `name` has returned
Returned(name) ==
    running.pc = "ready" /\ running.name = name /\ running.returned # 0

\* the state returned by the last call
ReturnedState == states[running.returned].state

\* one more forward step and one more backward step add no work to related
Closed(state) ==
    /\ forward(running, state).related = state.related
    /\ backward(running, state).related = state.related

\* C22: whatever state fbfb or bfbf is started on, the initial state or a
\* state an earlier call returned, the state it returns is closed: one more
\* forward step or one more backward step adds no work to related.
C22_ReturnedStateIsClosed ==
    (Returned("fbfb") \/ Returned("bfbf")) => Closed(ReturnedState)

\* the Strategy was made with the default visited set, or with one that
\* contains the initial set
VisitedHasInitial ==
    running.visited = {} \/ running.initial_set \subseteq running.visited

\* C24: in every state made by a Strategy started with the default visited
\* set, or with one containing the initial set, related is a subset of
\* visited and the initial set is a subset of related, whatever backward,
\* forward, union and strategy calls made it.
C24_InitialInRelatedInVisited ==
    (running.pc # "idle" /\ VisitedHasInitial)
        => \A k \in 1..Len(states) :
             /\ states[k].state.related \subseteq states[k].state.visited
             /\ running.initial_set \subseteq states[k].state.related

\* a union of two states returned, the second with a related work the first
\* never visited
C24_Witness ==
    /\ Returned("union")
    /\ VisitedHasInitial
    /\ \E k \in 1..Len(states) :
         /\ states[k].operation = "union"
         /\ Len(states[k].previous) = 2
         /\ ~(states[states[k].previous[2]].state.related
                \subseteq states[states[k].previous[1]].state.visited)
         /\ running.initial_set # {}

\* State.previous[0] followed back: the places of the states `place` was
\* derived from, itself included
RECURSIVE History(_)
History(place) ==
    {place} \cup UNION {History(states[place].previous[k]) :
                          k \in 1..Len(states[place].previous)}

\* where the state at `place` is listed in the list
Listed(list, place) == {k \in 1..Len(list) : list[k] = place}

\* C25: the log of the state a strategy returned, the strategy called on
\* the initial state of a new Strategy object, lists every state of its
\* derivation history exactly once, a state after all the states it was
\* derived from, and the start state first.
C25_LogFollowsDerivation ==
    (/\ running.pc = "ready"
     /\ running.name \in RepeatStrategies \cup {"sbfu"}
     /\ running.calls = 1)
        => LET list == log(states, running.returned)
           IN  /\ \A place \in History(running.returned) :
                    Cardinality(Listed(list, place)) = 1
               /\ \A k \in 1..Len(list) : list[k] \in History(running.returned)
               /\ \A k \in 1..Len(list) :
                    \A j \in 1..Len(states[list[k]].previous) :
                       \E i \in 1..(k - 1) : list[i] = states[list[k]].previous[j]
               /\ states[list[1]].previous = <<>>

\* no strategy and no create_provenance is running
AtRest == running.pc \in {"idle", "ready"} /\ prov.pc \in {"idle", "return"}

\* C23: every strategy called (bb, ff, fbfb, bfbf, bbff, ffbb, s2bbff2u,
\* sbfu) returns, and so does create_provenance, whatever the citations,
\* the initial set (the empty set too) and the filter.
C23_Terminates == ~AtRest ~> AtRest

\* sbfu has returned after two turns of its loop, the first with new
\* related works
C23_Witness ==
    /\ Returned("sbfu")
    /\ running.calls = 1
    /\ Len(states) = 7
    /\ states[4].state.related # states[1].state.related

-----------------------------------------------------------------------------
(* C26: create_provenance and the strategy of the same order                *)

\* the strategy and create_provenance have both returned
BothReturned == repeating.pc = "return" /\ prov.pc = "return"

\* C26: on the same database, initial set and filter, create_provenance
\* with backward_first=True returns the frontier and the visited set that
\* are the related and visited sets of the state bfbf() returns, and with
\* backward_first=False those of the state fbfb() returns.
C26_ProvenanceIsStrategy ==
    BothReturned
        => /\ prov.frontier = repeating.state.related
           /\ prov.visited = repeating.state.visited

\* both have returned, with related works beyond the initial set and
\* visited works that are not related
C26_Witness ==
    /\ BothReturned
    /\ repeating.state.related # strategy.initial_set
    /\ repeating.state.visited # repeating.state.related
    /\ prov.frontier # prov.initial_set

=============================================================================
